---- MODULE Spec2Model ----
(***************************************************************************)
(* Pull-style processor graph of package dsp: Proc / OneProc with their    *)
(* per-node cache, the App registry (Add, Connect, Chain, Reset) and the   *)
(* processors of package proc that the graphs of the tests and of the      *)
(* speech example are wired from.                                          *)
(*                                                                         *)
(* A Get request is synchronous and recursive in the code.  It is modelled *)
(* by recursive operators that thread the mutable memory (the caches, the  *)
(* random generator, the trace of compute-function invocations) through    *)
(* every nested call and return (memory, value, error), so that one action *)
(* is one whole request.                                                   *)
(***************************************************************************)
EXTENDS Integers, Sequences, FiniteSets, TLC

\* ------------------------------------------------------------------ bounds
\* Largest frame index a consumer requests (the smallest is -1).
MaxIdx == 2
\* Nesting depth of Get calls at which the goroutine stack is taken as exhausted.
MaxDepth == 12
\* Cap of the invocation counter of the watched (processor, index) pair.
MaxCount == 3
\* Modulus of the modelled random generator (number of distinct random values).
RandMod == 2
\* Longest list of nodes handed to Connect and to Chain.
MaxFrom == 2
\* Longest list of nodes handed to Chain where chains are what is studied.
MaxChain == 3
\* Longest waveform, and largest frame size and step size, an iterator is
\* tried with.
MaxSamples == 5
MaxFrameSize == 3
\* Most frames of one node a consumer has cached before it resets, where the
\* series has many frames.
MaxFrames == 3

\* Largest BufferSize an App of the push-style pipeline is created with (the
\* smallest is 0, unbuffered channels).
MaxBuf == 2
\* The bufSize handed to NewProc: the capacity the cache is created with.
BufSize == 2

\* Index at which a scan over an upstream that never ends is given up.
MaxScan == MaxIdx + 1

\* --------------------------------------------------------------- constants
\* The value a maximum starts from, -math.MaxFloat64 in the code.
MinFloat == -1000000
\* Number of frames served by the test source, source(r, dim, 20) in the tests.
SrcLen == 2
\* Scale factor of the Scale processors.
Alpha == 2
\* Length of the Fibonacci series, Fibo(11) in the examples.
FiboN == 11
\* Index at which the scan of Mean over an input that never ends is given up.
MaxMeanScan == FiboN

\* ------------------------------------------------------------------ errors
NoErr == "nil"
ErrOOB == "frame index out of bounds"
ErrNoFunc == "no ProcFunc set"
ErrNotFramer == "processor does not implement the Framer interface"
ErrCheckInputs == "processer does not implement the framer interface"
ErrSubInputs == "proc Sub needs 2 inputs"
ErrUnsupported == "unsupported input type"
PanicConversion == "panic: interface conversion"
PanicIndex == "panic: index out of range"
PanicShape == "panic: shape mismatch"
PanicNilDeref == "panic: nil pointer dereference"
PanicNameTaken == "panic: there is already a processor with that name"
PanicNotInputter == "panic: processor does not implement the Inputter interface"
ErrCycle == "the graph has a cycle"
FatalStack == "fatal: stack overflow"
FatalHang == "fatal: the scan does not end"
Done == "no more json objects"

\* ------------------------------------------------------------------ values
\* A Value is an interface value: nil, or a *narray.NArray, which is itself a
\* nil pointer or points to an array with its data.  isNil: there is no array;
\* iface: the interface value is not nil (it compares unequal to nil).
Nil == [isNil |-> TRUE, iface |-> FALSE, data |-> <<>>]
NilArray == [isNil |-> TRUE, iface |-> TRUE, data |-> <<>>]
NA(d) == [isNil |-> FALSE, iface |-> TRUE, data |-> d]

Max(a, b) == IF a >= b THEN a ELSE b

\* narray.Scale(nil, v, alpha)
NaScale(v, alpha) == NA([k \in 1..Len(v.data) |-> v.data[k] * alpha])
\* An array whose elements are fractions [num, den] (see Quot below): the
\* field frac tells it from an array of integers.
NAQ(d) == [isNil |-> FALSE, iface |-> TRUE, data |-> d, frac |-> TRUE]
IsFrac(v) == "frac" \in DOMAIN v
\* Element k of v as a fraction.
Frac(v, k) == IF IsFrac(v) THEN v.data[k] ELSE [num |-> v.data[k], den |-> 1]
\* narray.Add(nil, a, b)
NaAdd(a, b) == NA([k \in 1..Len(a.data) |-> a.data[k] + b.data[k]])
\* narray.AddScaled(res, v, alpha): res + alpha * v
NaAddScaled(res, v, alpha) ==
  NA([k \in 1..Len(res.data) |-> res.data[k] + alpha * v.data[k]])
\* narray.New(dim): dim zeros
NaNew(dim) == NA([k \in 1..dim |-> 0])
\* The quotient num / den of two integers, in lowest terms: floating point
\* numbers that are not integers are modelled as exact fractions.  A zero
\* denominator is the division by zero of IEEE 754: 0/0 is NaN, n/0 an infinity.
RECURSIVE Gcd(_, _)
Gcd(a, b) == IF b = 0 THEN a ELSE Gcd(b, a % b)
Abs(a) == IF a < 0 THEN -a ELSE a
Quot(num, den) ==
  IF den = 0 THEN [num |-> IF num > 0 THEN 1 ELSE IF num < 0 THEN -1 ELSE 0, den |-> 0]
  ELSE IF num = 0 THEN [num |-> 0, den |-> 1]
  ELSE [num |-> (IF den < 0 THEN -num ELSE num) \div Gcd(Abs(num), Abs(den)),
        den |-> Abs(den) \div Gcd(Abs(num), Abs(den))]
\* narray.Scale(sum, sum, 1.0 / n)
NaMean(sum, n) == NAQ([k \in 1..Len(sum.data) |-> Quot(sum.data[k], n)])
\* narray.Sub(nil, a, b)
NaSub(a, b) ==
  IF IsFrac(a) \/ IsFrac(b)
  THEN NAQ([k \in 1..Len(a.data) |->
              Quot(Frac(a, k).num * Frac(b, k).den - Frac(b, k).num * Frac(a, k).den,
                   Frac(a, k).den * Frac(b, k).den)])
  ELSE NA([k \in 1..Len(a.data) |-> a.data[k] - b.data[k]])
\* narray.MaxArray(out, a, b), elementwise
NaMax(a, b) == NA([k \in 1..Len(a.data) |-> Max(a.data[k], b.data[k])])

\* ------------------------------------------------------------- processors
\* The processor objects that exist (each the result of one constructor call).
SourceProcs == {"wav"}
OneProcs == {"mx", "nl", "mean"}
PlainProcs == {"raw"}
Procs == {"s1", "sl", "a", "j", "nof", "d", "c", "zm", "fib", "dsl", "msl", "fzm", "ah", "nsl", "mn"}
\* Processors that embed a Proc without compute function and have a Get of their own.
DiffProcs == {"diff", "diff1", "diff3", "diffs"}
MAProcs == {"ma"}
Processers == Procs \cup OneProcs \cup SourceProcs \cup PlainProcs \cup DiffProcs \cup MAProcs

\* The compute function a Proc or OneProc was created with ("nil": none).
Fn ==
  [p \in Processers |->
     CASE p = "s1" -> "source"
       [] p = "sl" -> "slice"
       [] p = "dsl" -> "sliceDiff"
       [] p = "msl" -> "sliceMA"
       [] p \in {"a", "c", "d"} -> "Scale"
       [] p = "j" -> "Join"
       [] p \in {"zm", "fzm"} -> "Sub"
       [] p = "fib" -> "Fibo"
       [] p = "ah" -> "ahead"
       [] p = "nsl" -> "sliceNorm"
       [] p = "mn" -> "MaxNorm"
       [] p = "mx" -> "MaxWin"
       [] p = "nl" -> "nilFunc"
       [] p = "mean" -> "Mean"
       [] OTHER -> "nil"]

\* Capabilities, as the type assertions of the code resolve them.
IsFramer(p) == p \in Procs \cup SourceProcs \cup DiffProcs \cup MAProcs
IsOneValuer(p) == p \in OneProcs
IsInputter(p) == p \in Procs \cup OneProcs \cup SourceProcs \cup DiffProcs \cup MAProcs
IsResetter(p) == p \in Procs \cup OneProcs \cup SourceProcs \cup DiffProcs \cup MAProcs

\* The data of the slice source.
SliceData == <<5, 6>>

\* The input and the coefficients of the DiffProc of the tests, and the
\* size of its frames.
DiffData == <<1, 1, 7, 6, 5, 2, 2, 3, 4, 5, -1>>
Coeff == <<0, 1>>
Delta == Len(Coeff)
DiffDim == 1
\* The coefficients each DiffProc was created with, and its delta, their number.
CoeffOf(p) ==
  CASE p = "diff1" -> <<1>>
    [] p = "diff3" -> <<1, 0, 1>>
    [] p = "diffs" -> <<1, 1>>
    [] OTHER -> Coeff
DeltaOf(p) == Len(CoeffOf(p))

\* The input a MaxNorm is tried with, and its alpha, 1 / NormAlphaDen.
NormData == <<8, 2, -6>>
NormAlphaDen == 2

\* The input of the MAProc of the tests, its window and the size of its frames.
MAData == <<1, 3, 5, 3, 1, 3, 13, -5, -3, -5>>
WinSize == 4
MADim == 1

\* The waveforms of the stream the wav source iterates over.
Waveforms == << <<1, 2>>, <<3>> >>
FrameSize == 1
StepSize == 1

VARIABLES
  procs,      \* App.procs: name -> Node
  appInputs,  \* App.inputs: Node -> list of Nodes
  inputs,     \* Proc.inputs / OneProc.inputs of every processor
  cache,      \* Proc.cache.store of every processor: index -> Value
  one,        \* OneProc.cache of every processor
  rng,        \* state of the rand.Rand shared by the test sources
  wavIdx,     \* number of waveforms the wav source has loaded (0: none yet)
  last,       \* the last operation, its arguments and what it returned
  watch,      \* the (processor, index) pair whose compute function is instrumented
  cnt,        \* invocations of the watched compute function since construction
  cntR,       \* the same, since the last reset of the watched processor
  fresh,      \* App.Reset was called after the last SourceProc.Next
  push        \* the push-style pipeline: channels, goroutines, procErrors

vars == <<procs, appInputs, inputs, cache, one, rng, wavIdx, last, watch, cnt, cntR, fresh, push>>

\* No push-style pipeline was started.
NoPush == [cap |-> 0]

\* -------------------------------------------------------------------- cache
newCache == [i \in {} |-> Nil]

\* A cache.set that keeps at most BufSize entries: the entry of the smallest
\* index makes room for the new one.
cacheSet_Evict(c, idx, vec) ==
  LET all == (DOMAIN c) \cup {idx}
      kept == IF Cardinality(all) > BufSize
              THEN all \ {CHOOSE i \in all \ {idx} : \A k \in all \ {idx} : i <= k}
              ELSE all
  IN  [i \in kept |-> IF i = idx THEN vec ELSE c[i]]

\* cache.set: c.store[idx] = vec; the capacity c.cap is not looked at.
cacheSet(c, idx, vec) == [i \in (DOMAIN c) \cup {idx} |-> IF i = idx THEN vec ELSE c[i]]

cacheHas(c, idx) == idx \in DOMAIN c

cacheClear == newCache

\* ------------------------------------------------------------ evaluation
\* The memory a request reads and writes, and what a call returns.
Ret(m, val, err) == [m |-> m, val |-> val, err |-> err]

Mem ==
  [cache |-> cache, one |-> one, rng |-> rng,
   calls |-> <<>>, oneCalls |-> <<>>, depth |-> 0]

\* Depth bookkeeping on entry of a Get: the deepest nesting reached so far.
Enter(m, d) == [m EXCEPT !.depth = Max(@, d)]

\* narray.Rand(r, dim) with dim = 1: draws from r, which advances.
Rand(m) == Ret([m EXCEPT !.rng = (@ + 1) % RandMod], NA(<<m.rng>>), NoErr)

\* The test source: a Proc whose compute function draws a random frame.
source(idx, m) ==
  IF idx < 0 \/ idx >= SrcLen THEN Ret(m, Nil, ErrOOB) ELSE Rand(m)

\* The test source over a slice of numbers: frame idx is data[idx].
slice(idx, m) ==
  IF idx < 0 \/ idx >= Len(SliceData) THEN Ret(m, Nil, ErrOOB)
  ELSE Ret(m, NA(<<SliceData[idx + 1]>>), NoErr)

\* The same source over the data of another test.
sliceOf(data, idx, m) ==
  IF idx < 0 \/ idx >= Len(data) THEN Ret(m, Nil, ErrOOB)
  ELSE Ret(m, NA(<<data[idx + 1]>>), NoErr)

\* The waveform the iterator of the wav source currently holds.
Samples == IF wavIdx = 0 THEN <<>> ELSE Waveforms[wavIdx]

\* Iter.Frame
Frame(idx) ==
  LET n == Len(Samples)
      start == idx * StepSize
      end == start + FrameSize
  IN  IF start < 0 \/ start >= n THEN [val |-> Nil, err |-> ErrOOB]
      ELSE IF end < 1 \/ end > n THEN [val |-> Nil, err |-> ErrOOB]
      ELSE [val |-> NA(SubSeq(Samples, start + 1, end)), err |-> NoErr]

\* Integer division of Go: the quotient is truncated toward zero.
GoDiv(a, b) == IF a >= 0 THEN a \div b ELSE -((-a) \div b)

\* Iter.NumFrames of an iterator over samples.
NumFrames(samples, frameSize, stepSize) ==
  IF frameSize < 1 THEN 1
  ELSE IF stepSize < frameSize
    THEN GoDiv(Len(samples) - (frameSize - stepSize), stepSize)
  ELSE GoDiv(Len(samples), stepSize)

\* Iter.Frame of an iterator over samples.
IterFrame(samples, frameSize, stepSize, idx) ==
  LET n == Len(samples)
      start == idx * stepSize
      end == start + frameSize
  IN  IF start < 0 \/ start >= n THEN [val |-> Nil, err |-> ErrOOB]
      ELSE IF end < 1 \/ end > n THEN [val |-> Nil, err |-> ErrOOB]
      ELSE [val |-> NA(SubSeq(samples, start + 1, end)), err |-> NoErr]

\* SourceProc.Get without a window: a copy of the frame, nothing is cached.
SourceProcGet(idx, m) == Ret(m, Frame(idx).val, Frame(idx).err)

RECURSIVE ProcGet(_, _, _, _)
RECURSIVE OneProcGet(_, _, _)
RECURSIVE ProcFunc(_, _, _, _)
RECURSIVE OneProcFunc(_, _, _)
RECURSIVE FramerGet(_, _, _, _)
RECURSIVE ProcessersGet(_, _, _, _)
RECURSIVE Get(_, _, _, _)
RECURSIVE JoinLoop(_, _, _, _, _, _)
RECURSIVE MaxWinLoop(_, _, _, _, _)
RECURSIVE MeanLoop(_, _, _, _, _)
RECURSIVE MaxNormLoop(_, _, _, _, _, _, _)
RECURSIVE DiffProcGet(_, _, _, _)
RECURSIVE DiffLoop(_, _, _, _, _, _)
RECURSIVE MAProcGet(_, _, _, _)
RECURSIVE MALoop(_, _, _, _, _, _)

\* p.(Framer).Get(idx) on a processor that implements Framer.
FramerGet(p, idx, m, d) ==
  IF p \in SourceProcs THEN SourceProcGet(idx, m)
  ELSE IF p \in DiffProcs THEN DiffProcGet(p, idx, m, d)
  ELSE IF p \in MAProcs THEN MAProcGet(p, idx, m, d)
  ELSE ProcGet(p, idx, m, d)

\* Processers.Get: the value of input #0.
ProcessersGet(in, idx, m, d) ==
  IF Len(in) = 0 THEN Ret(m, Nil, PanicIndex)
  ELSE IF ~IsFramer(in[1]) THEN Ret(m, Nil, ErrNotFramer)
  ELSE FramerGet(in[1], idx, m, d)

\* A dsp.Get that knows Framers alone.
Get_FramerOnly(p, idx, m, d) ==
  IF IsFramer(p) THEN FramerGet(p, idx, m, d)
  ELSE Ret(m, Nil, ErrUnsupported)

\* dsp.Get: dispatch on the capability of p.
Get(p, idx, m, d) ==
  IF IsFramer(p) THEN FramerGet(p, idx, m, d)
  ELSE IF IsOneValuer(p) THEN OneProcGet(p, m, d)
  ELSE Ret(m, Nil, ErrUnsupported)

\* Scale with the error of its input replaced by an error of its own.
Scale_MaskError(r) ==
  IF r.err # NoErr THEN Ret(r.m, Nil, ErrNotFramer)
  ELSE IF r.val.isNil THEN Ret(r.m, Nil, PanicNilDeref)
  ELSE Ret(r.m, NaScale(r.val, Alpha), NoErr)

\* proc.Scale, given what Processers.Get returned for the input.
Scale(r) ==
  IF r.err # NoErr THEN Ret(r.m, Nil, r.err)
  ELSE IF r.val.isNil THEN Ret(r.m, Nil, PanicNilDeref)
  ELSE Ret(r.m, NaScale(r.val, Alpha), NoErr)

\* Processers.CheckInputs(len(in)): every input must be a Framer.
CheckInputs(in) ==
  IF \E k \in 1..Len(in) : ~IsFramer(in[k]) THEN ErrCheckInputs ELSE NoErr

\* One pass of the loop of proc.Join that puts the new frame in front.
JoinAppend_Prepend(in, k, idx, v, d, r) ==
  IF r.err # NoErr THEN Ret(r.m, Nil, r.err)
  ELSE IF r.val.isNil THEN Ret(r.m, Nil, PanicNilDeref)
  ELSE JoinLoop(in, k + 1, idx, r.m, r.val.data \o v, d)

\* One pass of the loop of proc.Join, given what input k returned.
JoinAppend(in, k, idx, v, d, r) ==
  IF r.err # NoErr THEN Ret(r.m, Nil, r.err)
  ELSE IF r.val.isNil THEN Ret(r.m, Nil, PanicNilDeref)
  ELSE JoinLoop(in, k + 1, idx, r.m, v \o r.val.data, d)

\* The loop of proc.Join over the inputs k..len(in), v the data stacked so far.
JoinLoop(in, k, idx, m, v, d) ==
  IF k > Len(in) THEN Ret(m, NA(v), NoErr)
  ELSE JoinAppend(in, k, idx, v, d, FramerGet(in[k], idx, m, d))

\* proc.Join
Join(p, idx, m, d) ==
  IF CheckInputs(inputs[p]) # NoErr THEN Ret(m, Nil, CheckInputs(inputs[p]))
  ELSE JoinLoop(inputs[p], 1, idx, m, <<>>, d)

\* proc.Sub from the second dsp.Get on: r0 and r1 are what the inputs returned.
SubOf(r0, r1) ==
  IF r1.err # NoErr THEN Ret(r1.m, Nil, r1.err)
  ELSE IF r0.val.isNil \/ r1.val.isNil THEN Ret(r1.m, Nil, PanicNilDeref)
  ELSE IF Len(r0.val.data) # Len(r1.val.data) THEN Ret(r1.m, Nil, PanicShape)
  ELSE Ret(r1.m, NaSub(r0.val, r1.val), NoErr)

\* proc.Sub from the first dsp.Get on.
SubFrom(in, idx, d, r0) ==
  IF r0.err # NoErr THEN Ret(r0.m, Nil, r0.err)
  ELSE SubOf(r0, Get(in[2], idx, r0.m, d))

\* proc.Sub
Sub(p, idx, m, d) ==
  IF Len(inputs[p]) # 2 THEN Ret(m, Nil, ErrSubInputs)
  ELSE SubFrom(inputs[p], idx, d, Get(inputs[p][1], idx, m, d))

\* One pass of the loop of proc.MaxWin, given what frame i of the input returned.
MaxWinStep(in, i, max, d, r) ==
  LET first == NA([k \in 1..Len(r.val.data) |-> MinFloat])
      acc == IF i = 0 THEN first ELSE max
  IN  IF r.err = ErrOOB THEN Ret(r.m, max, NoErr)
      ELSE IF r.err # NoErr THEN Ret(r.m, Nil, r.err)
      ELSE IF r.val.isNil THEN Ret(r.m, Nil, PanicNilDeref)
      ELSE IF Len(acc.data) # Len(r.val.data) THEN Ret(r.m, Nil, PanicShape)
      ELSE MaxWinLoop(in, i + 1, NaMax(acc, r.val), r.m, d)

\* The scan of proc.MaxWin from index i on, max the maximum so far.
MaxWinLoop(in, i, max, m, d) ==
  IF i > MaxScan THEN Ret(m, Nil, FatalHang)
  ELSE MaxWinStep(in, i, max, d, ProcessersGet(in, i, m, d))

\* proc.MaxWin
MaxWin(p, m, d) == MaxWinLoop(inputs[p], 0, NilArray, m, d)

\* A Mean that takes every error of its input for the end of the stream.
MeanStep_AnyError(in, i, mean, d, r) ==
  IF r.err # NoErr THEN
    IF mean.isNil THEN Ret(r.m, Nil, PanicNilDeref)
    ELSE Ret(r.m, NaMean(mean, i), NoErr)
  ELSE IF r.val.isNil THEN Ret(r.m, Nil, PanicNilDeref)
  ELSE IF i = 0 THEN MeanLoop(in, i + 1, r.val, r.m, d)
  ELSE IF Len(mean.data) # Len(r.val.data) THEN Ret(r.m, Nil, PanicShape)
  ELSE MeanLoop(in, i + 1, NaAdd(mean, r.val), r.m, d)

\* One pass of the loop of proc.Mean, given what frame i of the input
\* returned: at the end of the input the sum is scaled by 1/i (narray.Scale
\* dereferences mean, which is a nil pointer when the input has no frame).
MeanStep(in, i, mean, d, r) ==
  IF r.err = ErrOOB THEN
    IF mean.isNil THEN Ret(r.m, Nil, PanicNilDeref)
    ELSE Ret(r.m, NaMean(mean, i), NoErr)
  ELSE IF r.err # NoErr THEN Ret(r.m, Nil, r.err)
  ELSE IF r.val.isNil THEN Ret(r.m, Nil, PanicNilDeref)
  ELSE IF i = 0 THEN MeanLoop(in, i + 1, r.val, r.m, d)
  ELSE IF Len(mean.data) # Len(r.val.data) THEN Ret(r.m, Nil, PanicShape)
  ELSE MeanLoop(in, i + 1, NaAdd(mean, r.val), r.m, d)

\* The scan of proc.Mean from index i on, mean the sum so far.
MeanLoop(in, i, mean, m, d) ==
  IF i > MaxMeanScan THEN Ret(m, Nil, FatalHang)
  ELSE MeanStep(in, i, mean, d, ProcessersGet(in, i, m, d))

\* proc.Mean
Mean(p, m, d) == MeanLoop(inputs[p], 0, NilArray, m, d)

\* Fibo from the second Processers.Get on: vm1 and vm2 are what they returned.
FiboOf(vm1, vm2) ==
  IF vm2.err # NoErr THEN Ret(vm2.m, Nil, vm2.err)
  ELSE IF vm1.val.isNil \/ vm2.val.isNil THEN Ret(vm2.m, Nil, PanicNilDeref)
  ELSE IF Len(vm1.val.data) # Len(vm2.val.data) THEN Ret(vm2.m, Nil, PanicShape)
  ELSE Ret(vm2.m, NaAdd(vm2.val, vm1.val), NoErr)

\* Fibo from the first Processers.Get on.
FiboFrom(p, idx, d, vm1) ==
  IF vm1.err # NoErr THEN Ret(vm1.m, Nil, vm1.err)
  ELSE FiboOf(vm1, ProcessersGet(inputs[p], idx - 2, vm1.m, d))

\* Fibo with the series started at index 0 alone.
Fibo_OneBase(p, idx, m, d) ==
  IF idx = 0 THEN Ret(m, NA(<<1>>), NoErr)
  ELSE IF idx < 0 \/ idx >= FiboN THEN Ret(m, Nil, ErrOOB)
  ELSE FiboFrom(p, idx, d, ProcessersGet(inputs[p], idx - 1, m, d))

\* The compute function of Fibo(N), which reads its own node as its input.
Fibo(p, idx, m, d) ==
  IF idx = 0 \/ idx = 1 THEN Ret(m, NA(<<1>>), NoErr)
  ELSE IF idx < 0 \/ idx >= FiboN THEN Ret(m, Nil, ErrOOB)
  ELSE FiboFrom(p, idx, d, ProcessersGet(inputs[p], idx - 1, m, d))

\* narray.Dot(v, v) and its square root, an integer for the frames used here.
RECURSIVE DotFrom(_, _)
DotFrom(v, k) == IF k > Len(v.data) THEN 0 ELSE v.data[k] * v.data[k] + DotFrom(v, k + 1)
Norm(v) == CHOOSE r \in 0..DotFrom(v, 1) : r * r = DotFrom(v, 1)

\* math.Max(y, norm) with y = norm0 * alpha, as a fraction.
MaxOf(norm0, norm) ==
  IF norm0 > norm * NormAlphaDen THEN Quot(norm0, NormAlphaDen) ELSE Quot(norm, 1)

\* One pass of the loop of proc.MaxNorm, given what the input returned: norm
\* is the norm the pass before computed.
MaxNormStep(in, i, idx, norm, d, r) ==
  IF r.err # NoErr THEN Ret(r.m, Nil, r.err)
  ELSE IF r.val.isNil THEN Ret(r.m, Nil, PanicNilDeref)
  ELSE MaxNormLoop(in, i + 1, idx, Norm(r.val), MaxOf(norm, Norm(r.val)), r.m, d)

\* The loop of proc.MaxNorm from pass i on: every pass reads frame idx.
MaxNormLoop(in, i, idx, norm, max, m, d) ==
  IF i > idx THEN Ret(m, NAQ(<<max>>), NoErr)
  ELSE MaxNormStep(in, i, idx, norm, d, ProcessersGet(in, idx, m, d))

\* proc.MaxNorm
MaxNorm(p, idx, m, d) == MaxNormLoop(inputs[p], 0, idx, 0, Quot(0, 1), m, d)

\* A ProcFunc that answers frame idx with frame idx + 1 of its input.
ahead(p, idx, m, d) == ProcessersGet(inputs[p], idx + 1, m, d)

\* bp.f(idx, bp.inputs...): the compute function of a Proc.
ProcFunc(p, idx, m, d) ==
  CASE Fn[p] = "source" -> source(idx, m)
    [] Fn[p] = "slice" -> slice(idx, m)
    [] Fn[p] = "sliceDiff" -> sliceOf(DiffData, idx, m)
    [] Fn[p] = "sliceMA" -> sliceOf(MAData, idx, m)
    [] Fn[p] = "Scale" -> Scale(ProcessersGet(inputs[p], idx, m, d + 1))
    [] Fn[p] = "Join" -> Join(p, idx, m, d + 1)
    [] Fn[p] = "Sub" -> Sub(p, idx, m, d + 1)
    [] Fn[p] = "Fibo" -> Fibo(p, idx, m, d + 1)
    [] Fn[p] = "ahead" -> ahead(p, idx, m, d + 1)
    [] Fn[p] = "sliceNorm" -> sliceOf(NormData, idx, m)
    [] Fn[p] = "MaxNorm" -> MaxNorm(p, idx, m, d + 1)

\* A OneProcFunc whose aggregate is the nil Value: it returns nil, nil.
nilFunc(m) == Ret(m, Nil, NoErr)

\* bp.f(bp.inputs...): the compute function of a OneProc.
OneProcFunc(p, m, d) ==
  CASE Fn[p] = "MaxWin" -> MaxWin(p, m, d + 1)
    [] Fn[p] = "nilFunc" -> nilFunc(m)
    [] Fn[p] = "Mean" -> Mean(p, m, d + 1)

\* The memory in which bp.f is entered: the invocation is recorded.
Called(p, idx, m, d) == [Enter(m, d) EXCEPT !.calls = Append(@, <<p, idx>>)]

\* The end of Proc.Get, given what bp.f returned: an error is returned as it
\* is, a value is stored in the cache and returned.
ProcSet(p, idx, r) ==
  IF r.err # NoErr THEN Ret(r.m, Nil, r.err)
  ELSE Ret([r.m EXCEPT !.cache[p] = cacheSet(@, idx, r.val)], r.val, NoErr)

\* The end of Proc.Get without the cache.set.
ProcSet_NoStore(r) ==
  IF r.err # NoErr THEN Ret(r.m, Nil, r.err) ELSE Ret(r.m, r.val, NoErr)

\* The end of Proc.Get with a cache.set on failure as well (a nil entry).
ProcSet_CacheFailure(p, idx, r) ==
  IF r.err # NoErr
  THEN Ret([r.m EXCEPT !.cache[p] = cacheSet(@, idx, Nil)], Nil, r.err)
  ELSE Ret([r.m EXCEPT !.cache[p] = cacheSet(@, idx, r.val)], r.val, NoErr)

\* Proc.Get without the cache lookup: every request computes.
ProcGet_NoLookup(p, idx, m, d) ==
  IF d > MaxDepth THEN Ret(m, Nil, FatalStack)
  ELSE IF idx < 0 THEN Ret(Enter(m, d), Nil, ErrOOB)
  ELSE IF Fn[p] # "nil" THEN
    ProcSet(p, idx, ProcFunc(p, idx, Called(p, idx, m, d), d))
  ELSE Ret(Enter(m, d), Nil, ErrNoFunc)

\* Proc.Get without the cache.set: a computed value is returned but not kept.
ProcGet_NoStore(p, idx, m, d) ==
  IF d > MaxDepth THEN Ret(m, Nil, FatalStack)
  ELSE IF idx < 0 THEN Ret(Enter(m, d), Nil, ErrOOB)
  ELSE IF cacheHas(m.cache[p], idx) THEN Ret(Enter(m, d), m.cache[p][idx], NoErr)
  ELSE IF Fn[p] # "nil" THEN
    ProcSet_NoStore(ProcFunc(p, idx, Called(p, idx, m, d), d))
  ELSE Ret(Enter(m, d), Nil, ErrNoFunc)

\* Proc.Get without the test for a negative index.
ProcGet_NoNegative(p, idx, m, d) ==
  IF d > MaxDepth THEN Ret(m, Nil, FatalStack)
  ELSE IF cacheHas(m.cache[p], idx) THEN Ret(Enter(m, d), m.cache[p][idx], NoErr)
  ELSE IF Fn[p] # "nil" THEN
    ProcSet(p, idx, ProcFunc(p, idx, Called(p, idx, m, d), d))
  ELSE Ret(Enter(m, d), Nil, ErrNoFunc)

\* Proc.Get that tests for the compute function before it looks into the cache.
ProcGet_FuncFirst(p, idx, m, d) ==
  IF d > MaxDepth THEN Ret(m, Nil, FatalStack)
  ELSE IF idx < 0 THEN Ret(Enter(m, d), Nil, ErrOOB)
  ELSE IF Fn[p] = "nil" THEN Ret(Enter(m, d), Nil, ErrNoFunc)
  ELSE IF cacheHas(m.cache[p], idx) THEN Ret(Enter(m, d), m.cache[p][idx], NoErr)
  ELSE
    ProcSet(p, idx, ProcFunc(p, idx, Called(p, idx, m, d), d))

\* Proc.Get that also remembers a failed computation (as a nil entry).
ProcGet_CacheFailure(p, idx, m, d) ==
  IF d > MaxDepth THEN Ret(m, Nil, FatalStack)
  ELSE IF idx < 0 THEN Ret(Enter(m, d), Nil, ErrOOB)
  ELSE IF cacheHas(m.cache[p], idx) THEN Ret(Enter(m, d), m.cache[p][idx], NoErr)
  ELSE IF Fn[p] # "nil" THEN
    ProcSet_CacheFailure(p, idx, ProcFunc(p, idx, Called(p, idx, m, d), d))
  ELSE Ret(Enter(m, d), Nil, ErrNoFunc)

\* Proc.Get that keeps a computed frame only when the consumer asked for it
\* (d = 1), not when another processor did.
ProcGet_TopOnly(p, idx, m, d) ==
  IF d > MaxDepth THEN Ret(m, Nil, FatalStack)
  ELSE IF idx < 0 THEN Ret(Enter(m, d), Nil, ErrOOB)
  ELSE IF cacheHas(m.cache[p], idx) THEN Ret(Enter(m, d), m.cache[p][idx], NoErr)
  ELSE IF Fn[p] # "nil" THEN
    IF d = 1 THEN ProcSet(p, idx, ProcFunc(p, idx, Called(p, idx, m, d), d))
    ELSE ProcSet_NoStore(ProcFunc(p, idx, Called(p, idx, m, d), d))
  ELSE Ret(Enter(m, d), Nil, ErrNoFunc)

\* Proc.Get
ProcGet(p, idx, m, d) ==
  IF d > MaxDepth THEN Ret(m, Nil, FatalStack)
  ELSE IF idx < 0 THEN Ret(Enter(m, d), Nil, ErrOOB)
  ELSE IF cacheHas(m.cache[p], idx) THEN Ret(Enter(m, d), m.cache[p][idx], NoErr)
  ELSE IF Fn[p] # "nil" THEN
    ProcSet(p, idx, ProcFunc(p, idx, Called(p, idx, m, d), d))
  ELSE Ret(Enter(m, d), Nil, ErrNoFunc)

\* bp.Framer(0).Get(idx): input #0 of an embedded Proc, asserted to be a Framer.
ProcFramerGet(p, idx, m, d) ==
  IF Len(inputs[p]) = 0 THEN Ret(m, Nil, PanicIndex)
  ELSE IF ~IsFramer(inputs[p][1]) THEN Ret(m, Nil, PanicConversion)
  ELSE FramerGet(inputs[p][1], idx, m, d)

\* The end of DiffProc.Get: dp.SetCache(idx, res).
DiffSet(p, idx, res, m) ==
  Ret([m EXCEPT !.cache[p] = cacheSet(@, idx, res)], res, NoErr)

\* A DiffProc that gives up instead of repeating the next frame.
DiffRepeat_GiveUp(p, idx, v) == Ret(v.m, Nil, ErrOOB)

\* DiffProc.Get where the frame before the window is missing, given what
\* dp.Get(idx + 1) returned: the next frame is repeated.
DiffRepeat(p, idx, v) ==
  IF v.err # NoErr THEN Ret(v.m, Nil, v.err) ELSE DiffSet(p, idx, v.val, v.m)

\* The turn of a DiffProc that, where the frame before the window is missing,
\* asks itself for the frame it is computing.
DiffMinus_SameFrame(p, idx, j, res, d, plus, minus) ==
  IF minus.err = ErrOOB
  THEN DiffRepeat(p, idx, DiffProcGet(p, idx, Called(p, idx, minus.m, d + 1), d + 1))
  ELSE IF minus.err # NoErr THEN Ret(minus.m, Nil, minus.err)
  ELSE IF plus.val.isNil \/ minus.val.isNil THEN Ret(minus.m, Nil, PanicNilDeref)
  ELSE IF Len(plus.val.data) # Len(res.data) \/ Len(minus.val.data) # Len(res.data)
    THEN Ret(minus.m, Nil, PanicShape)
  ELSE DiffLoop(p, idx, j + 1,
                NaAddScaled(NaAddScaled(res, plus.val, CoeffOf(p)[j + 1]),
                            minus.val, -CoeffOf(p)[j + 1]),
                minus.m, d)

\* One turn of the loop of DiffProc.Get, given the frames at idx + j + 1
\* (plus) and idx - j - 1 (minus); j counts from 0 as in the code.  The call
\* dp.Get(idx + 1) of the DiffProc on itself is recorded in the trace.
DiffMinus(p, idx, j, res, d, plus, minus) ==
  IF minus.err = ErrOOB
  THEN DiffRepeat(p, idx, DiffProcGet(p, idx + 1, Called(p, idx + 1, minus.m, d + 1), d + 1))
  ELSE IF minus.err # NoErr THEN Ret(minus.m, Nil, minus.err)
  ELSE IF plus.val.isNil \/ minus.val.isNil THEN Ret(minus.m, Nil, PanicNilDeref)
  ELSE IF Len(plus.val.data) # Len(res.data) \/ Len(minus.val.data) # Len(res.data)
    THEN Ret(minus.m, Nil, PanicShape)
  ELSE DiffLoop(p, idx, j + 1,
                NaAddScaled(NaAddScaled(res, plus.val, CoeffOf(p)[j + 1]),
                            minus.val, -CoeffOf(p)[j + 1]),
                minus.m, d)

DiffPlus(p, idx, j, res, d, plus) ==
  IF plus.err # NoErr THEN Ret(plus.m, Nil, plus.err)
  ELSE DiffMinus(p, idx, j, res, d, plus, ProcFramerGet(p, idx - j - 1, plus.m, d + 1))

\* The loop of DiffProc.Get from turn j on, res being the sum so far.
DiffLoop(p, idx, j, res, m, d) ==
  IF j >= DeltaOf(p) THEN DiffSet(p, idx, res, m)
  ELSE DiffPlus(p, idx, j, res, d, ProcFramerGet(p, idx + j + 1, m, d + 1))

\* A DiffProc that, for an index it has not cached, serves the frame it cached
\* for the index before.
DiffProcGet_Stale(p, idx, m, d) ==
  IF d > MaxDepth THEN Ret(m, Nil, FatalStack)
  ELSE IF idx < 0 THEN Ret(Enter(m, d), Nil, ErrOOB)
  ELSE IF cacheHas(m.cache[p], idx) THEN Ret(Enter(m, d), m.cache[p][idx], NoErr)
  ELSE IF cacheHas(m.cache[p], idx - 1) THEN Ret(Enter(m, d), m.cache[p][idx - 1], NoErr)
  ELSE DiffLoop(p, idx, 0, NaNew(DiffDim), Enter(m, d), d)

\* DiffProc.Get
DiffProcGet(p, idx, m, d) ==
  IF d > MaxDepth THEN Ret(m, Nil, FatalStack)
  ELSE IF idx < 0 THEN Ret(Enter(m, d), Nil, ErrOOB)
  ELSE IF cacheHas(m.cache[p], idx) THEN Ret(Enter(m, d), m.cache[p][idx], NoErr)
  ELSE DiffLoop(p, idx, 0, NaNew(DiffDim), Enter(m, d), d)

\* The first frame of the window of MAProc.Get and the number the sum is
\* divided by: the window is shorter at the head of the stream.
MAStart(idx) == IF idx < WinSize THEN 0 ELSE idx - WinSize + 1
\* An MAProc that divides by the window size at the head of the stream too.
MACount_Window(idx) == WinSize
MACount(idx) == IF idx < WinSize THEN idx + 1 ELSE WinSize

\* The end of MAProc.Get: the sum is scaled and cached.
MASet(p, idx, sum, m) ==
  Ret([m EXCEPT !.cache[p] = cacheSet(@, idx, NaMean(sum, MACount(idx)))],
      NaMean(sum, MACount(idx)), NoErr)

\* One turn of the loop of MAProc.Get, given frame j of the input.
MAAdd(p, idx, j, sum, d, v) ==
  IF v.err # NoErr THEN Ret(v.m, Nil, v.err)
  ELSE IF v.val.isNil THEN Ret(v.m, Nil, PanicNilDeref)
  ELSE IF Len(v.val.data) # Len(sum.data) THEN Ret(v.m, Nil, PanicShape)
  ELSE MALoop(p, idx, j + 1, NaAdd(sum, v.val), v.m, d)

\* The loop of MAProc.Get from frame j on, sum being the sum so far.
MALoop(p, idx, j, sum, m, d) ==
  IF j > idx THEN MASet(p, idx, sum, m)
  ELSE MAAdd(p, idx, j, sum, d, ProcFramerGet(p, j, m, d + 1))

\* MAProc.Get
MAProcGet(p, idx, m, d) ==
  IF d > MaxDepth THEN Ret(m, Nil, FatalStack)
  ELSE IF cacheHas(m.cache[p], idx) THEN Ret(Enter(m, d), m.cache[p][idx], NoErr)
  ELSE MALoop(p, idx, MAStart(idx), NaNew(MADim), Enter(m, d), d)

\* The end of OneProc.Get, given what bp.f returned.
OneProcSet(p, r) ==
  IF r.err # NoErr THEN Ret(r.m, Nil, r.err)
  ELSE Ret([r.m EXCEPT !.one[p] = r.val], r.val, NoErr)

\* OneProc.Get
OneProcGet(p, m, d) ==
  IF d > MaxDepth THEN Ret(m, Nil, FatalStack)
  ELSE IF m.one[p].iface THEN Ret(Enter(m, d), m.one[p], NoErr)
  ELSE IF Fn[p] # "nil" THEN
    OneProcSet(p, OneProcFunc(p, [Enter(m, d) EXCEPT !.oneCalls = Append(@, p)], d))
  ELSE Ret(Enter(m, d), Nil, ErrNoFunc)

\* Node.Get
NodeGet(n, idx, m) ==
  IF ~IsFramer(n.typ) THEN Ret(m, Nil, PanicConversion) ELSE FramerGet(n.typ, idx, m, 1)

\* Node.GetOne
NodeGetOne(n, m) ==
  IF ~IsOneValuer(n.typ) THEN Ret(m, Nil, PanicConversion) ELSE OneProcGet(n.typ, m, 1)

\* ----------------------------------------------------------------- registry
\* The objects the calls act on: the App and the processors.  NewApp is the
\* App NewApp returns, next to the processors as their constructors return them.
NewApp ==
  [procs |-> [nm \in {} |-> 0],
   appInputs |-> [n \in {} |-> <<>>],
   inputs |-> [p \in Processers |-> <<>>],
   cache |-> [p \in Processers |-> newCache],
   one |-> [p \in Processers |-> Nil]]

\* The objects as they are in the current state.
Heap ==
  [procs |-> procs, appInputs |-> appInputs, inputs |-> inputs,
   cache |-> cache, one |-> one]

NoNode == [name |-> <<>>, typ |-> "none"]

Range(f) == {f[x] : x \in DOMAIN f}

\* strings.TrimSpace on a name, a sequence of characters.
RECURSIVE TrimLeft(_)
TrimLeft(s) == IF s # <<>> /\ Head(s) = " " THEN TrimLeft(Tail(s)) ELSE s

RECURSIVE TrimRight(_)
TrimRight(s) ==
  IF s # <<>> /\ s[Len(s)] = " " THEN TrimRight(SubSeq(s, 1, Len(s) - 1)) ELSE s

TrimSpace(s) == TrimRight(TrimLeft(s))

\* A map with one key set.
MapSet(f, k, v) == [x \in (DOMAIN f) \cup {k} |-> IF x = k THEN v ELSE f[x]]

\* App.Add as it was before names were checked: the name is taken over.
AppAdd_Overwrite(A, name, p) ==
  LET nodeName == TrimSpace(name)
      n == [name |-> nodeName, typ |-> p]
  IN  [app |-> [A EXCEPT !.procs = MapSet(@, nodeName, n)], node |-> n, err |-> NoErr]

\* App.Add
AppAdd(A, name, p) ==
  LET nodeName == TrimSpace(name)
      n == [name |-> nodeName, typ |-> p]
  IN  IF nodeName \in DOMAIN A.procs
      THEN [app |-> A, node |-> NoNode, err |-> PanicNameTaken]
      ELSE [app |-> [A EXCEPT !.procs = MapSet(@, nodeName, n)], node |-> n, err |-> NoErr]

PanicNoProcessor == "panic: no processor of that name in builder graph"
ErrNoProcessor == "no processor of that name in builder graph"
ErrNoNames == "the names argument is empty, need at least one name"

\* App.NodeByName
NodeByName(A, name) ==
  IF name \notin DOMAIN A.procs THEN [node |-> NoNode, err |-> PanicNoProcessor]
  ELSE [node |-> A.procs[name], err |-> NoErr]

\* App.NodesByName: the loop from position k on, nodes being those found so far.
RECURSIVE NodesLoop(_, _, _, _)
NodesLoop(A, names, k, nodes) ==
  IF k > Len(names) THEN [nodes |-> nodes, err |-> NoErr]
  ELSE IF names[k] \notin DOMAIN A.procs THEN [nodes |-> <<>>, err |-> ErrNoProcessor]
  ELSE NodesLoop(A, names, k + 1, Append(nodes, A.procs[names[k]]))

\* App.NodesByName
NodesByName(A, names) ==
  IF Len(names) = 0 THEN [nodes |-> <<>>, err |-> ErrNoNames]
  ELSE NodesLoop(A, names, 1, <<>>)

\* Proc.SetInputs / OneProc.SetInputs
SetInputs(A, p, in) == [A EXCEPT !.inputs[p] = in]

\* App.Connect that returns without binding when the consumer is no Inputter.
AppConnect_Silent(A, to, from) ==
  IF ~IsInputter(to.typ)
  THEN [app |-> A, node |-> to, err |-> NoErr]
  ELSE [app |-> [SetInputs(A, to.typ, [k \in 1..Len(from) |-> from[k].typ])
                   EXCEPT !.appInputs = MapSet(@, to, from)],
        node |-> to, err |-> NoErr]

\* A Connect that refuses to wire a node to itself.
AppConnect_NoSelf(A, to, from) ==
  IF ~IsInputter(to.typ)
  THEN [app |-> A, node |-> NoNode, err |-> PanicNotInputter]
  ELSE IF \E k \in 1..Len(from) : from[k] = to
  THEN [app |-> A, node |-> NoNode, err |-> ErrCycle]
  ELSE [app |-> [SetInputs(A, to.typ, [k \in 1..Len(from) |-> from[k].typ])
                   EXCEPT !.appInputs = MapSet(@, to, from)],
        node |-> to, err |-> NoErr]

\* App.Connect
AppConnect(A, to, from) ==
  IF ~IsInputter(to.typ)
  THEN [app |-> A, node |-> NoNode, err |-> PanicNotInputter]
  ELSE [app |-> [SetInputs(A, to.typ, [k \in 1..Len(from) |-> from[k].typ])
                   EXCEPT !.appInputs = MapSet(@, to, from)],
        node |-> to, err |-> NoErr]

\* The loop of App.Chain with the direction of the binding reversed.
RECURSIVE ChainLoop(_, _, _)
ChainLoop_Reversed(A, nodes, k) ==
  IF k > Len(nodes) - 1 THEN [app |-> A, node |-> nodes[1], err |-> NoErr]
  ELSE IF ~IsInputter(nodes[k + 1].typ)
  THEN [app |-> A, node |-> NoNode, err |-> PanicNotInputter]
  ELSE ChainLoop([SetInputs(A, nodes[k + 1].typ, <<nodes[k].typ>>)
                    EXCEPT !.appInputs = MapSet(@, nodes[k + 1], <<nodes[k]>>)],
                 nodes, k + 1)

\* App.Chain: the loop from position k on (k counts from 1).
ChainLoop(A, nodes, k) ==
  IF k > Len(nodes) - 1 THEN [app |-> A, node |-> nodes[1], err |-> NoErr]
  ELSE IF ~IsInputter(nodes[k].typ)
  THEN [app |-> A, node |-> NoNode, err |-> PanicNotInputter]
  ELSE ChainLoop([SetInputs(A, nodes[k].typ, <<nodes[k + 1].typ>>)
                    EXCEPT !.appInputs = MapSet(@, nodes[k], <<nodes[k + 1]>>)],
                 nodes, k + 1)

AppChain(A, nodes) ==
  IF Len(nodes) = 0 THEN [app |-> A, node |-> NoNode, err |-> PanicIndex]
  ELSE ChainLoop(A, nodes, 1)

\* Proc.Reset that leaves the cache as it is.
ProcReset_Keep(H, p) == H

\* Proc.Reset that puts the whole Proc back to what NewProc returns.
ProcReset_DropInputs(H, p) == [H EXCEPT !.cache[p] = cacheClear, !.inputs[p] = <<>>]

\* Proc.Reset
ProcReset(H, p) == [H EXCEPT !.cache[p] = cacheClear]

\* OneProc.Reset that leaves the aggregate as it is.
OneProcReset_Keep(H, p) == H

\* OneProc.Reset
OneProcReset(H, p) == [H EXCEPT !.one[p] = Nil]

\* res.Reset() on a processor that implements Resetter.
ResetterReset(H, p) == IF p \in OneProcs THEN OneProcReset(H, p) ELSE ProcReset(H, p)

\* The processors App.Reset resets: those of the registered nodes that are Resetters.
Resetters(pr) == {n.typ : n \in {x \in Range(pr) : IsResetter(x.typ)}}

\* The loop of App.Reset over the processors S that are still to be reset.
RECURSIVE ResetLoop(_, _)
ResetLoop(H, S) ==
  IF S = {} THEN H
  ELSE LET p == CHOOSE x \in S : TRUE IN ResetLoop(ResetterReset(H, p), S \ {p})

\* App.Reset
AppReset(H) == ResetLoop(H, Resetters(H.procs))

\* ------------------------------------------------------------------ actions
\* Occurrences of x in the sequence s.
Count(s, x) == Cardinality({k \in 1..Len(s) : s[k] = x})

Op(op, n, idx, r) ==
  [op |-> op, node |-> n, idx |-> idx, val |-> r.val, err |-> r.err,
   calls |-> r.m.calls, oneCalls |-> r.m.oneCalls, depth |-> r.m.depth,
   name |-> <<>>, typ |-> "none", from |-> <<>>]

NoOp(op, n, idx, err) == Op(op, n, idx, Ret(Mem, Nil, err))

\* The call op on node n returned r: the memory it left is the next state.
Returned(op, n, idx, r) ==
  /\ cnt + Count(r.m.calls, watch) <= MaxCount
  /\ cache' = r.m.cache
  /\ one' = r.m.one
  /\ rng' = r.m.rng
  /\ cnt' = cnt + Count(r.m.calls, watch)
  /\ cntR' = cntR + Count(r.m.calls, watch)
  /\ last' = Op(op, n, idx, r)

\* A consumer requests frame idx of node n.
DoGet(n, idx) ==
  /\ Returned("Get", n, idx, NodeGet(n, idx, Mem))
  /\ UNCHANGED <<procs, appInputs, inputs, wavIdx, watch, fresh, push>>

\* A consumer requests the aggregate of node n.
DoGetOne(n) ==
  /\ Returned("GetOne", n, 0, NodeGetOne(n, Mem))
  /\ UNCHANGED <<procs, appInputs, inputs, wavIdx, watch, fresh, push>>

\* The objects of the next state are those of H.
Becomes(H) ==
  /\ procs' = H.procs
  /\ appInputs' = H.appInputs
  /\ inputs' = H.inputs
  /\ cache' = H.cache
  /\ one' = H.one

\* App.Reset
DoReset ==
  /\ Becomes(AppReset(Heap))
  /\ cntR' = IF watch[1] \in Resetters(procs) THEN 0 ELSE cntR
  /\ fresh' = TRUE
  /\ last' = NoOp("Reset", NoNode, 0, NoErr)
  /\ UNCHANGED <<rng, wavIdx, watch, cnt, push>>

\* Proc.SetCache called on a Proc that has no compute function.
DoSetCache(p, idx, val) ==
  /\ Fn[p] = "nil"
  /\ cache' = [cache EXCEPT ![p] = cacheSet(@, idx, val)]
  /\ last' = NoOp("SetCache", [name |-> <<>>, typ |-> p], idx, NoErr)
  /\ UNCHANGED <<procs, appInputs, inputs, one, rng, wavIdx, watch, cnt, cntR, fresh, push>>

\* App.Add
DoAdd(name, p) ==
  LET r == AppAdd(Heap, name, p)
  IN  /\ Becomes(r.app)
      /\ last' = [NoOp("Add", r.node, 0, r.err) EXCEPT !.name = name, !.typ = p]
      /\ UNCHANGED <<rng, wavIdx, watch, cnt, cntR, fresh, push>>

\* App.Connect
DoConnect(to, from) ==
  LET r == AppConnect(Heap, to, from)
  IN  /\ Becomes(r.app)
      /\ last' = [NoOp("Connect", to, 0, r.err) EXCEPT !.from = from]
      /\ UNCHANGED <<rng, wavIdx, watch, cnt, cntR, fresh, push>>

\* App.Chain
DoChain(nodes) ==
  LET r == AppChain(Heap, nodes)
  IN  /\ Becomes(r.app)
      /\ last' = [NoOp("Chain", r.node, 0, r.err) EXCEPT !.from = nodes]
      /\ UNCHANGED <<rng, wavIdx, watch, cnt, cntR, fresh, push>>

\* SourceProc.Next: the next waveform of the stream, or Done after the last one.
DoNext ==
  /\ wavIdx' = IF wavIdx < Len(Waveforms) THEN wavIdx + 1 ELSE wavIdx
  /\ fresh' = FALSE
  /\ last' = NoOp("Next", NoNode, 0, IF wavIdx < Len(Waveforms) THEN NoErr ELSE Done)
  /\ UNCHANGED <<procs, appInputs, inputs, cache, one, rng, watch, cnt, cntR, push>>

\* NewIterator(path, fs, frameSize, stepSize), Next, which loads a waveform
\* of n samples 1, 2, ..., n, then NumFrames and Frame(idx), as in TestBounds.
DoFrame(n, frameSize, stepSize, idx) ==
  /\ last' = [op |-> "Frame", idx |-> idx,
               samples |-> [k \in 1..n |-> k],
               frameSize |-> frameSize, stepSize |-> stepSize,
               numFrames |-> NumFrames([k \in 1..n |-> k], frameSize, stepSize),
               val |-> IterFrame([k \in 1..n |-> k], frameSize, stepSize, idx).val,
               err |-> IterFrame([k \in 1..n |-> k], frameSize, stepSize, idx).err]
  /\ UNCHANGED <<procs, appInputs, inputs, cache, one, rng, wavIdx, watch, cnt, cntR, fresh, push>>

\* ------------------------------------------------- the graph of the tests
\* s1 <- a (a Scale processor chained to a random source) and j = Join(a, s1),
\* so that s1 has two consumers.
TestAdd1 == AppAdd(NewApp, <<"s", "1">>, "s1")
TestAdd2 == AppAdd(TestAdd1.app, <<"a">>, "a")
TestAdd3 == AppAdd(TestAdd2.app, <<"j">>, "j")
TestChain == AppChain(TestAdd3.app, <<TestAdd2.node, TestAdd1.node>>)
TestApp == AppConnect(TestChain.app, TestAdd3.node, <<TestAdd2.node, TestAdd1.node>>).app

Indices == -1..MaxIdx

SetValues == {NA(<<7>>), NA(<<8>>)}

NoWatch == <<"none", 0>>

\* The state in which the objects are those of H and nothing was requested yet.
InitMem(H) ==
  /\ procs = H.procs
  /\ appInputs = H.appInputs
  /\ inputs = H.inputs
  /\ cache = H.cache
  /\ one = H.one
  /\ rng = 0
  /\ wavIdx = 0
  /\ cnt = 0
  /\ cntR = 0
  /\ fresh = TRUE
  /\ last = NoOp("NewApp", NoNode, 0, NoErr)
  /\ push = NoPush

Init ==
  /\ watch \in {<<n.typ, i>> : n \in Range(TestApp.procs), i \in 0..MaxIdx}
  /\ InitMem(TestApp)

Next ==
  \/ \E n \in Range(procs), idx \in Indices : DoGet(n, idx)
  \/ DoReset

Spec == Init /\ [][Next]_vars

\* The lists of at most n elements of S.
Lists(S, n) == UNION {[1..k -> S] : k \in 0..n}

\* ----------------------------------------------- wiring the Join of the tests
\* The graph of the tests before j is connected: the providers of j and their
\* order are chosen by the Connect call, and frames are requested after it.
InitJoin ==
  /\ watch = NoWatch
  /\ InitMem(TestChain.app)

NextJoin ==
  \/ \E from \in Lists(Range(procs) \ {TestAdd3.node}, MaxFrom) :
        /\ TestAdd3.node \notin DOMAIN appInputs
        /\ DoConnect(TestAdd3.node, from)
  \/ \E n \in Range(procs), idx \in Indices :
        /\ TestAdd3.node \in DOMAIN appInputs
        /\ DoGet(n, idx)
  \/ DoReset

SpecJoin == InitJoin /\ [][NextJoin]_vars

\* ------------------------------------------------------ chaining processors
\* A slice source, two Scale processors and a value without SetInputs, added
\* and not yet wired; Chain wires them while nothing is cached.
ChainAdd1 == AppAdd(NewApp, <<"s", "l">>, "sl")
ChainAdd2 == AppAdd(ChainAdd1.app, <<"a">>, "a")
ChainAdd3 == AppAdd(ChainAdd2.app, <<"d">>, "d")
ChainAdd4 == AppAdd(ChainAdd3.app, <<"r", "a", "w">>, "raw")

InitChain ==
  /\ watch = NoWatch
  /\ InitMem(ChainAdd4.app)

NextChain ==
  \/ \E nodes \in Lists(Range(procs), MaxChain) :
        /\ \A p \in Processers : cache[p] = newCache
        /\ DoChain(nodes)
  \/ \E n \in Range(procs), idx \in Indices : IsFramer(n.typ) /\ DoGet(n, idx)
  \/ DoReset

SpecChain == InitChain /\ [][NextChain]_vars

\* ------------------------------------------- the Fibonacci example
\* fibo := app.Add("Fibo", Fibo(11)); app.Connect(fibo, fibo): a self loop.
FiboAdd == AppAdd(NewApp, <<"F", "i", "b", "o">>, "fib")
FiboApp == AppConnect(FiboAdd.app, FiboAdd.node, <<FiboAdd.node>>).app

InitFibo ==
  /\ watch = NoWatch
  /\ InitMem(FiboApp)

NextFibo ==
  \/ \E n \in Range(procs), idx \in -1..FiboN : DoGet(n, idx)
  \/ DoReset

SpecFibo == InitFibo /\ [][NextFibo]_vars

\* ------------------------------------------------ the graph of TestDiff
\* src := app.Add("source", slice(input)); diff := app.Add("diff",
\* NewDiffProc(1, 20, coeff)); app.Connect(diff, src).
DiffAdd1 == AppAdd(NewApp, <<"s", "r", "c">>, "dsl")
DiffAdd2 == AppAdd(DiffAdd1.app, <<"d", "i", "f", "f">>, "diff")
DiffApp == AppConnect(DiffAdd2.app, DiffAdd2.node, <<DiffAdd1.node>>).app

InitDiff ==
  /\ watch = NoWatch
  /\ InitMem(DiffApp)

\* The consumer requests frames of diff in any order, with resets in between.
NextDiff ==
  \/ \E idx \in -1..Len(DiffData) : DoGet(DiffAdd2.node, idx)
  \/ DoReset

SpecDiff == InitDiff /\ [][NextDiff]_vars

\* --------------------------------------- the graph of TestMovingAverage
\* src := app.Add("source", slice(input)); ma := app.Add("moving average",
\* NewMAProc(1, 4, 20)); app.Connect(ma, src).
MAAdd1 == AppAdd(NewApp, <<"s", "r", "c">>, "msl")
MAAdd2 == AppAdd(MAAdd1.app, <<"m", "a">>, "ma")
MAApp == AppConnect(MAAdd2.app, MAAdd2.node, <<MAAdd1.node>>).app

InitMA ==
  /\ watch = NoWatch
  /\ InitMem(MAApp)

\* The consumer requests frames of ma in any order, with resets in between.
NextMA ==
  \/ \E idx \in -1..Len(MAData) : DoGet(MAAdd2.node, idx)
  \/ DoReset

SpecMA == InitMA /\ [][NextMA]_vars

\* ------------------------------------ DiffProcs of several deltas
\* Beside the graph of TestDiff a DiffProc of delta 1 and one of delta 3 over
\* the same source, and one of delta 2 over the slice source of two frames.
DeltaAdd1 == AppAdd(DiffApp, <<"d", "1">>, "diff1")
DeltaAdd2 == AppAdd(DeltaAdd1.app, <<"d", "3">>, "diff3")
DeltaAdd3 == AppAdd(DeltaAdd2.app, <<"s", "l">>, "sl")
DeltaAdd4 == AppAdd(DeltaAdd3.app, <<"d", "s">>, "diffs")
DeltaOne == AppConnect(DeltaAdd4.app, DeltaAdd1.node, <<DiffAdd1.node>>)
DeltaThree == AppConnect(DeltaOne.app, DeltaAdd2.node, <<DiffAdd1.node>>)
DeltaApp == AppConnect(DeltaThree.app, DeltaAdd4.node, <<DeltaAdd3.node>>).app

InitDelta ==
  /\ watch = NoWatch
  /\ InitMem(DeltaApp)

\* The consumer requests frames of one DiffProc at a time, in any order, and
\* resets before it turns to another one or once MaxFrames frames are cached.
NextDelta ==
  \/ \E n \in Range(procs), idx \in -1..Len(DiffData) :
        /\ n.typ \in DiffProcs
        /\ Cardinality(DOMAIN cache[n.typ]) < MaxFrames
        /\ \A p \in DiffProcs \ {n.typ} : cache[p] = newCache
        /\ DoGet(n, idx)
  \/ DoReset

SpecDelta == InitDelta /\ [][NextDelta]_vars

\* --------------------------------------- aggregates over an upstream
\* A Mean and a MaxWin, each connected to one upstream: a slice source of two
\* frames, a Scale chained to it, a slice source of three frames, a Proc
\* without compute function or a value that serves no frames.
AggAdd1 == AppAdd(NewApp, <<"s", "l">>, "sl")
AggAdd2 == AppAdd(AggAdd1.app, <<"a">>, "a")
AggAdd3 == AppAdd(AggAdd2.app, <<"n", "s", "l">>, "nsl")
AggAdd4 == AppAdd(AggAdd3.app, <<"n", "o", "f">>, "nof")
AggAdd5 == AppAdd(AggAdd4.app, <<"r", "a", "w">>, "raw")
AggAdd6 == AppAdd(AggAdd5.app, <<"m", "e", "a", "n">>, "mean")
AggAdd7 == AppAdd(AggAdd6.app, <<"m", "x">>, "mx")
AggApp == AppChain(AggAdd7.app, <<AggAdd2.node, AggAdd1.node>>).app

\* The nodes an aggregate is connected to.
Upstreams == {AggAdd1.node, AggAdd2.node, AggAdd3.node, AggAdd4.node, AggAdd5.node}

InitAgg ==
  /\ watch = NoWatch
  /\ InitMem(AggApp)

\* The aggregates are connected before the first request; then frames and
\* aggregates are requested in any order, with resets in between.
NextAgg ==
  \/ \E to \in {AggAdd6.node, AggAdd7.node}, up \in Upstreams :
        /\ to \notin DOMAIN appInputs
        /\ \A p \in Processers : cache[p] = newCache /\ one[p] = Nil
        /\ DoConnect(to, <<up>>)
  \/ \E n \in Upstreams, idx \in Indices :
        /\ {AggAdd6.node, AggAdd7.node} \subseteq DOMAIN appInputs
        /\ IsFramer(n.typ)
        /\ DoGet(n, idx)
  \/ \E n \in {AggAdd6.node, AggAdd7.node} :
        /\ {AggAdd6.node, AggAdd7.node} \subseteq DOMAIN appInputs
        /\ DoGetOne(n)
  \/ DoReset

SpecAgg == InitAgg /\ [][NextAgg]_vars

\* ------------------------------------------------- nodes wired in a loop
\* A slice source, a Scale and a processor that reads the next frame of its
\* input, wired by Connect calls that may name the consumer as its own input.
LoopAdd1 == AppAdd(NewApp, <<"s", "l">>, "sl")
LoopAdd2 == AppAdd(LoopAdd1.app, <<"a">>, "a")
LoopAdd3 == AppAdd(LoopAdd2.app, <<"a", "h">>, "ah")

InitLoop ==
  /\ watch = NoWatch
  /\ InitMem(LoopAdd3.app)

NextLoop ==
  \/ \E to \in Range(procs), from \in Lists(Range(procs), 1) :
        /\ \A p \in Processers : cache[p] = newCache
        /\ DoConnect(to, from)
  \/ \E n \in Range(procs), idx \in Indices : DoGet(n, idx)
  \/ DoReset

SpecLoop == InitLoop /\ [][NextLoop]_vars

\* --------------------------------- one processor added under two names
\* p := Scale(2) is added as "x" and as "y" and x is connected to a slice
\* source; beside them a Scale d over a random source, unrelated to both.
ShareAdd1 == AppAdd(NewApp, <<"s", "l">>, "sl")
ShareAdd2 == AppAdd(ShareAdd1.app, <<"x">>, "a")
ShareAdd3 == AppAdd(ShareAdd2.app, <<"y">>, "a")
ShareAdd4 == AppAdd(ShareAdd3.app, <<"s", "1">>, "s1")
ShareAdd5 == AppAdd(ShareAdd4.app, <<"d">>, "d")
ShareLeft == AppConnect(ShareAdd5.app, ShareAdd2.node, <<ShareAdd1.node>>)
ShareApp == AppConnect(ShareLeft.app, ShareAdd5.node, <<ShareAdd4.node>>).app

InitShare ==
  /\ watch = NoWatch
  /\ InitMem(ShareApp)

NextShare ==
  \/ \E n \in Range(procs), idx \in Indices : DoGet(n, idx)
  \/ DoReset

SpecShare == InitShare /\ [][NextShare]_vars

\* ------------------------------------------- a MaxNorm over a slice
NormAdd1 == AppAdd(NewApp, <<"s", "r", "c">>, "nsl")
NormAdd2 == AppAdd(NormAdd1.app, <<"m", "n">>, "mn")
NormApp == AppConnect(NormAdd2.app, NormAdd2.node, <<NormAdd1.node>>).app

InitNorm ==
  /\ watch = NoWatch
  /\ InitMem(NormApp)

NextNorm ==
  \/ \E n \in Range(procs), idx \in -1..Len(NormData) : DoGet(n, idx)
  \/ DoReset

SpecNorm == InitNorm /\ [][NextNorm]_vars

\* ------------------------------------------- an iterator over waveforms
InitIter ==
  /\ watch = NoWatch
  /\ InitMem(NewApp)

NextIter ==
  \E n \in 0..MaxSamples, frameSize \in 1..MaxFrameSize,
     stepSize \in 1..MaxFrameSize, idx \in -1..MaxSamples + 1 :
    DoFrame(n, frameSize, stepSize, idx)

SpecIter == InitIter /\ [][NextIter]_vars

\* ------------------------------------- the zero-mean Fibonacci example
\* fibo wired to itself, fiboMean = Mean(fibo), fiboZM = Sub(fibo, fiboMean);
\* and beside the example a Sub whose second input has no Get at all.
ZMAdd1 == AppAdd(NewApp, <<"F", "i", "b", "o">>, "fib")
ZMAdd2 == AppAdd(ZMAdd1.app, <<"M", "e", "a", "n">>, "mean")
ZMAdd3 == AppAdd(ZMAdd2.app, <<"Z", "M">>, "fzm")
ZMAdd4 == AppAdd(ZMAdd3.app, <<"r", "a", "w">>, "raw")
ZMAdd5 == AppAdd(ZMAdd4.app, <<"b", "a", "d">>, "zm")
ZMLoop == AppConnect(ZMAdd5.app, ZMAdd1.node, <<ZMAdd1.node>>)
ZMMean == AppConnect(ZMLoop.app, ZMAdd2.node, <<ZMAdd1.node>>)
ZMSub == AppConnect(ZMMean.app, ZMAdd3.node, <<ZMAdd1.node, ZMAdd2.node>>)
ZMApp == AppConnect(ZMSub.app, ZMAdd5.node, <<ZMAdd1.node, ZMAdd4.node>>).app

InitZM ==
  /\ watch = NoWatch
  /\ InitMem(ZMApp)

\* A consumer requests frames in any order; between two resets it stops
\* asking a Sub node once MaxFrames frames of it are cached.
NextZM ==
  \/ \E n \in Range(procs), idx \in -1..FiboN :
        /\ IsFramer(n.typ)
        /\ Fn[n.typ] = "Sub" => Cardinality(DOMAIN cache[n.typ]) < MaxFrames
        /\ DoGet(n, idx)
  \/ \E n \in Range(procs) : IsOneValuer(n.typ) /\ DoGetOne(n)
  \/ DoReset

SpecZM == InitZM /\ [][NextZM]_vars

\* ------------------------------------- the graph of the speech front end
\* wav <- c (the chain over the waveform source), mx = MaxWin(c), the stream
\* aggregate, and zm = Sub(c, mx).
StreamAdd1 == AppAdd(NewApp, <<"w", "a", "v">>, "wav")
StreamAdd2 == AppAdd(StreamAdd1.app, <<"c">>, "c")
StreamAdd3 == AppAdd(StreamAdd2.app, <<"m", "x">>, "mx")
StreamAdd4 == AppAdd(StreamAdd3.app, <<"z", "m">>, "zm")
StreamChain == AppChain(StreamAdd4.app, <<StreamAdd2.node, StreamAdd1.node>>)
StreamMax == AppConnect(StreamChain.app, StreamAdd3.node, <<StreamAdd2.node>>)
StreamApp == AppConnect(StreamMax.app, StreamAdd4.node, <<StreamAdd2.node, StreamAdd3.node>>).app

InitStream ==
  /\ watch = <<"c", 0>>
  /\ InitMem(StreamApp)

NextStream ==
  \/ \E n \in Range(procs), idx \in Indices : IsFramer(n.typ) /\ DoGet(n, idx)
  \/ \E n \in Range(procs) : IsOneValuer(n.typ) /\ DoGetOne(n)
  \/ DoReset
  \/ DoNext

SpecStream == InitStream /\ [][NextStream]_vars

\* ------------------------------------ a OneProc whose aggregate is nil
\* The graph of the speech front end with nl, a OneProc over the chain whose
\* compute function returns the nil Value and no error.
OneAdd == AppAdd(StreamApp, <<"n", "l">>, "nl")
OneApp == AppConnect(OneAdd.app, OneAdd.node, <<StreamAdd2.node>>).app

InitOne ==
  /\ watch = <<"c", 0>>
  /\ InitMem(OneApp)

NextOne ==
  \/ \E n \in Range(procs), idx \in Indices : IsFramer(n.typ) /\ DoGet(n, idx)
  \/ \E n \in Range(procs) : IsOneValuer(n.typ) /\ DoGetOne(n)
  \/ DoReset
  \/ DoNext

SpecOne == InitOne /\ [][NextOne]_vars

\* ------------------------------- a Proc without a compute function
\* nof = NewProc(n, nil), the Proc that MAProc, DiffProc and WindowProc embed
\* and fill with SetCache, and d = Scale(nof), a consumer of it.
NoFuncAdd1 == AppAdd(NewApp, <<"n", "o", "f">>, "nof")
NoFuncAdd2 == AppAdd(NoFuncAdd1.app, <<"d">>, "d")
NoFuncApp == AppChain(NoFuncAdd2.app, <<NoFuncAdd2.node, NoFuncAdd1.node>>).app

InitNoFunc ==
  /\ watch = NoWatch
  /\ InitMem(NoFuncApp)

NextNoFunc ==
  \/ \E n \in Range(procs), idx \in Indices : DoGet(n, idx)
  \/ \E n \in Range(procs), idx \in 0..MaxIdx, val \in SetValues : DoSetCache(n.typ, idx, val)
  \/ DoReset

SpecNoFunc == InitNoFunc /\ [][NextNoFunc]_vars

\* ------------------------------------------------------ wiring a graph
\* The processors handed to Add: a slice source, a Scale, a MaxWin and a value
\* that implements none of the interfaces.
AppPool == {"sl", "a", "mx", "raw"}

\* The names handed to Add.
AddNames == {<<"x">>, <<" ", "x">>, <<"x", " ">>, <<"y">>, <<" ", "y", " ">>}

\* A handle that no Add of this App returned: a Node of another App.
Strangers == {[name |-> <<"q">>, typ |-> "s1"]}

InitApp ==
  /\ watch = NoWatch
  /\ InitMem(NewApp)

NextApp ==
  \/ \E name \in AddNames, p \in AppPool : DoAdd(name, p)
  \/ \E to \in Range(procs), from \in Lists(Range(procs) \cup Strangers, MaxFrom) :
        DoConnect(to, from)
  \/ \E nodes \in Lists(Range(procs), MaxFrom) : DoChain(nodes)

SpecApp == InitApp /\ [][NextApp]_vars

\* ------------------------------------------------ the push-style pipeline
\* out := app.Run(src, mid) and a consumer that ranges over out and then calls
\* app.Error().  src is a Reader: it sends the frames of PushData and returns
\* nil, or an error where a number does not parse; mid is WriteValues: it
\* passes each frame on and returns an error where a write fails; seq is the
\* ProcFunc of Sequence, which starts both and forwards to out what mid sends.
PushData == <<1, 2, 3, 4, 5, 6>>
ErrSrc == "strconv.ParseFloat: invalid syntax"
ErrMid == "short write"

\* The goroutines runProc runs in, the channel each one sends to and the
\* goroutine that receives from each channel.
Workers == {"src", "mid", "seq"}
OutOf(g) == CASE g = "src" -> "c1" [] g = "mid" -> "c2" [] g = "seq" -> "out"
InOf(g) == CASE g = "mid" -> "c1" [] g = "seq" -> "c2" [] g = "main" -> "out"
ReaderOf(ch) == CASE ch = "c1" -> "mid" [] ch = "c2" -> "seq" [] ch = "out" -> "main"

\* app.Wire(): make(chan Value, app.BufferSize)
Wire == [buf |-> <<>>, closed |-> FALSE]

\* The pipeline when app.Run has returned: the goroutine of seq is started,
\* the consumer is about to receive.  mayFail: the processors whose input or
\* output may make them return an error.
NewPipe(cap, mayFail) ==
  [cap |-> cap, mayFail |-> mayFail,
   chan |-> [c \in {"c1", "c2", "out"} |-> Wire],
   pc |-> [g \in Workers \cup {"main"} |->
             CASE g = "seq" -> "connect1" [] g = "main" -> "recv" [] OTHER -> "idle"],
   hold |-> [g \in {"mid", "seq"} |-> 0],
   sent |-> 0,
   ret |-> [g \in Workers |-> NoErr],
   mu |-> "free",
   sawNil |-> [g \in Workers |-> FALSE],
   err |-> NoErr,
   log |-> <<>>,
   got |-> <<>>,
   seen |-> "none"]

\* Goroutine g is blocked in a receive from its input channel.
AtReceive(P, g) == P.pc[g] = (IF g = "main" THEN "recv" ELSE "run")

\* Goroutine g receives the value v.
Deliver(P, g, v) ==
  IF g = "main" THEN [P EXCEPT !.got = Append(@, v)]
  ELSE [P EXCEPT !.pc[g] = "send", !.hold[g] = v]

\* o <- v of SendValue: on an unbuffered channel the send waits for the
\* receiver and hands the value over, on a buffered one it waits for room.
CanSend(P, ch) ==
  IF P.cap = 0 THEN AtReceive(P, ReaderOf(ch)) ELSE Len(P.chan[ch].buf) < P.cap

SendValue(P, ch, v) ==
  IF P.cap = 0 THEN Deliver(P, ReaderOf(ch), v)
  ELSE [P EXCEPT !.chan[ch].buf = Append(@, v)]

\* A receive returns when a value is buffered or the channel is closed.
CanReceive(P, ch) == P.chan[ch].buf # <<>> \/ P.chan[ch].closed

\* sync.Mutex: Lock returns when the mutex is free.
CanLock_Always(P) == TRUE
CanLock(P) == P.mu = "free"

\* A runProc that closes the outputs first and records the error afterwards.
runProc_CloseFirst(pc, failed) ==
  CASE pc = "ret" -> "close"
    [] pc = "close" -> IF failed THEN "lock" ELSE "done"
    [] pc = "unlock" -> "done"

\* runProc: where the goroutine goes on from pc; e.record(p.RunProc(in, out))
\* takes the mutex when the error is not nil, then CloseOutputs(out).
runProc(pc, failed) ==
  CASE pc = "ret" -> IF failed THEN "lock" ELSE "close"
    [] pc = "unlock" -> "close"
    [] pc = "close" -> "done"

\* p.RunProc(in, out) of goroutine g returns err.
Returns(P, g, err) == [P EXCEPT !.ret[g] = err, !.pc[g] = runProc("ret", err # NoErr)]

\* A CloseOutputs that leaves the channels open.
CloseOutputs_None(P, g) == P

\* CloseOutputs
CloseOutputs(P, g) == [P EXCEPT !.chan[OutOf(g)].closed = TRUE]

\* procErrors.record with the test left out: the error is stored always.
record_LastWins(P, g) == [P EXCEPT !.err = P.ret[g], !.log = Append(@, P.ret[g])]

\* procErrors.record, the assignment: if e.err == nil { e.err = err }, the
\* test having been made before (sawNil).
record(P, g) ==
  [P EXCEPT !.err = IF P.sawNil[g] THEN P.ret[g] ELSE @, !.log = Append(@, P.ret[g])]

\* A step of the pipeline: nothing of the pull-style graph changes.
PushStep(P) ==
  /\ push' = P
  /\ UNCHANGED <<procs, appInputs, inputs, cache, one, rng, wavIdx, last, watch, cnt, cntR, fresh>>

\* Sequence: c := app.Wire(); app.ConnectOne(p, c, input) for src, then for mid.
SeqConnect ==
  \/ /\ push.pc["seq"] = "connect1"
     /\ PushStep([push EXCEPT !.pc["src"] = "run", !.pc["seq"] = "connect2"])
  \/ /\ push.pc["seq"] = "connect2"
     /\ PushStep([push EXCEPT !.pc["mid"] = "run", !.pc["seq"] = "run"])

\* Reader: SendValue(frame, arg) for the next frame.
SrcSend ==
  /\ push.pc["src"] = "run"
  /\ push.sent < Len(PushData)
  /\ CanSend(push, "c1")
  /\ PushStep([SendValue(push, "c1", PushData[push.sent + 1]) EXCEPT !.sent = @ + 1])

\* Reader: the input is exhausted, return nil.
SrcEnd ==
  /\ push.pc["src"] = "run"
  /\ push.sent = Len(PushData)
  /\ PushStep(Returns(push, "src", NoErr))

\* Reader: a number of the next frame does not parse, return e.
SrcFail ==
  /\ push.pc["src"] = "run"
  /\ push.sent < Len(PushData)
  /\ "src" \in push.mayFail
  /\ PushStep(Returns(push, "src", ErrSrc))

\* Goroutine g receives from its input channel: a buffered value, or the
\* end of the stream.  At the end WriteValues returns b.Flush(), the ProcFunc
\* of Sequence returns app.Error(), which takes the mutex.
Receive(g) ==
  /\ AtReceive(push, g)
  /\ CanReceive(push, InOf(g))
  /\ IF push.chan[InOf(g)].buf # <<>>
     THEN PushStep(Deliver([push EXCEPT !.chan[InOf(g)].buf = Tail(@)], g,
                           Head(push.chan[InOf(g)].buf)))
     ELSE CASE g = "mid" -> PushStep(Returns(push, g, NoErr))
            [] g = "seq" -> CanLock(push) /\ PushStep(Returns(push, g, push.err))
            [] g = "main" -> PushStep([push EXCEPT !.pc[g] = "closed"])

\* WriteValues and the ProcFunc of Sequence: SendValue(v, out).
Forward(g) ==
  /\ push.pc[g] = "send"
  /\ CanSend(push, OutOf(g))
  /\ PushStep([SendValue(push, OutOf(g), push.hold[g]) EXCEPT !.pc[g] = "run"])

\* WriteValues: b.Write fails for the frame received, or b.Flush at the end.
MidFail ==
  /\ "mid" \in push.mayFail
  /\ \/ push.pc["mid"] = "send"
     \/ push.pc["mid"] = "run" /\ push.chan["c1"].buf = <<>> /\ push.chan["c1"].closed
  /\ PushStep(Returns(push, "mid", ErrMid))

\* procErrors.record: e.mu.Lock()
Lock(g) ==
  /\ push.pc[g] = "lock"
  /\ CanLock(push)
  /\ PushStep([push EXCEPT !.mu = g, !.pc[g] = "test"])

\* procErrors.record: the test e.err == nil
Test(g) ==
  /\ push.pc[g] = "test"
  /\ PushStep([push EXCEPT !.sawNil[g] = (push.err = NoErr), !.pc[g] = "set"])

\* procErrors.record: the assignment
Set(g) ==
  /\ push.pc[g] = "set"
  /\ PushStep([record(push, g) EXCEPT !.pc[g] = "unlock"])

\* procErrors.record: e.mu.Unlock()
Unlock(g) ==
  /\ push.pc[g] = "unlock"
  /\ PushStep([push EXCEPT !.mu = IF @ = g THEN "free" ELSE @,
                           !.pc[g] = runProc("unlock", TRUE)])

\* runProc: CloseOutputs(out)
Close(g) ==
  /\ push.pc[g] = "close"
  /\ PushStep([CloseOutputs(push, g) EXCEPT !.pc[g] = runProc("close", push.ret[g] # NoErr)])

\* The consumer, having seen out closed, calls app.Error().
MainError ==
  /\ push.pc["main"] = "closed"
  /\ CanLock(push)
  /\ PushStep([push EXCEPT !.seen = push.err, !.pc["main"] = "done"])

\* The consumer stops reading.
MainStop ==
  /\ push.pc["main"] = "recv"
  /\ PushStep([push EXCEPT !.pc["main"] = "stopped"])

\* The steps of goroutine g, and those of a consumer that keeps reading.
WorkerNext(g) ==
  \/ g = "seq" /\ SeqConnect
  \/ g = "src" /\ (SrcSend \/ SrcEnd \/ SrcFail)
  \/ g = "mid" /\ MidFail
  \/ g # "src" /\ (Receive(g) \/ Forward(g))
  \/ Lock(g) \/ Test(g) \/ Set(g) \/ Unlock(g) \/ Close(g)

MainNext == Receive("main") \/ MainError

InitPipe ==
  /\ \E cap \in 0..MaxBuf, mayFail \in SUBSET {"src", "mid"} : push = NewPipe(cap, mayFail)
  /\ procs = NewApp.procs
  /\ appInputs = NewApp.appInputs
  /\ inputs = NewApp.inputs
  /\ cache = NewApp.cache
  /\ one = NewApp.one
  /\ rng = 0
  /\ wavIdx = 0
  /\ cnt = 0
  /\ cntR = 0
  /\ fresh = TRUE
  /\ watch = NoWatch
  /\ last = NoOp("NewApp", NoNode, 0, NoErr)

NextPipe ==
  \/ \E g \in Workers : WorkerNext(g)
  \/ MainNext
  \/ MainStop

SpecPipe == InitPipe /\ [][NextPipe]_vars

\* The Go scheduler runs every goroutine that is not blocked; the consumer
\* stops reading when it chooses to.
SpecPipeFair ==
  /\ SpecPipe
  /\ \A g \in Workers : WF_vars(WorkerNext(g))
  /\ WF_vars(MainNext)

\* ------------------------------------------------------------ the Builder
\* One node ("combo") and the processors connected into it.  A channel is
\* named after the processor that sends on it; NilChan is the nil channel.

MaxSlot == 3

Providers == {"r1", "r2", "r3"}

NilChan == "nil"

\* Add of the nodes: no edge, an empty inputIdx, no channels.  explicit and
\* twice record how the edges were connected: with an index of the caller,
\* and more than once.
NewBuilder ==
  [cap |-> 0, edges |-> {}, inputIdx |-> << >>, toChans |-> <<>>,
   explicit |-> {}, twice |-> FALSE, ran |-> FALSE, order |-> <<>>]

\* Builder.ConnectOrdered: the edge is added to the graph; imap[k] = idx for
\* idx >= 0, else imap[k] = len(imap).
ConnectOrdered(B, from, idx) ==
  LET imap == B.inputIdx
  IN [B EXCEPT !.edges = @ \cup {from},
               !.inputIdx = MapSet(imap, from,
                                   IF idx >= 0 THEN idx ELSE Cardinality(DOMAIN imap)),
               !.explicit = IF idx >= 0 THEN @ \cup {from} ELSE @ \ {from},
               !.twice = @ \/ from \in B.edges]

\* Builder.Connect
Connect(B, from) == ConnectOrdered(B, from, -1)

Nils(n) == [i \in 1..n |-> NilChan]

\* The body of the loop of Run over the edges: the channel goes to slot idx
\* of the slice, which is filled with nil up to idx when it is too short.
RunEdge(s, idx, ch) ==
  IF idx < Len(s)
  THEN [s EXCEPT ![idx + 1] = ch]
  ELSE s \o Nils(idx - Len(s)) \o <<ch>>

RECURSIVE RunEdges(_, _, _, _)
RunEdges(B, order, i, s) ==
  IF i > Len(order)
  THEN s
  ELSE RunEdges(B, order, i + 1, RunEdge(s, B.inputIdx[order[i]], order[i]))

\* g.EdgeList(): the edges in an order the graph chooses.
EdgeLists(E) ==
  {o \in [1..Cardinality(E) -> E] : \A i, j \in 1..Cardinality(E) : o[i] = o[j] => i = j}

\* Builder.Run, the edges visited in the order given.
BuilderRun(B, order) ==
  [B EXCEPT !.toChans = RunEdges(B, order, 1, B.toChans), !.ran = TRUE, !.order = order]

PullUnchanged ==
  UNCHANGED <<procs, appInputs, inputs, cache, one, rng, wavIdx, cnt, cntR, fresh, watch>>

BuildConnect ==
  /\ ~push.ran
  /\ \E from \in Providers :
       /\ push' = Connect(push, from)
       /\ last' = NoOp("Connect", NoNode, -1, NoErr)
  /\ PullUnchanged

BuildConnectOrdered ==
  /\ ~push.ran
  /\ \E from \in Providers, idx \in 0..MaxSlot :
       /\ push' = ConnectOrdered(push, from, idx)
       /\ last' = NoOp("ConnectOrdered", NoNode, idx, NoErr)
  /\ PullUnchanged

BuildRun ==
  /\ ~push.ran
  /\ \E order \in EdgeLists(push.edges) : push' = BuilderRun(push, order)
  /\ last' = NoOp("Run", NoNode, 0, NoErr)
  /\ PullUnchanged

InitBuild ==
  /\ push = NewBuilder
  /\ procs = NewApp.procs
  /\ appInputs = NewApp.appInputs
  /\ inputs = NewApp.inputs
  /\ cache = NewApp.cache
  /\ one = NewApp.one
  /\ rng = 0
  /\ wavIdx = 0
  /\ cnt = 0
  /\ cntR = 0
  /\ fresh = TRUE
  /\ watch = NoWatch
  /\ last = NoOp("NewBuilder", NoNode, 0, NoErr)

NextBuild == BuildConnect \/ BuildConnectOrdered \/ BuildRun

SpecBuild == InitBuild /\ [][NextBuild]_vars

\* ------------------------------------------- the push-style DiffProc
\* The vectors live in push.vecs under a number; push.buf holds the numbers
\* of the vectors of the circular buffer, so that a vector stored by
\* reference is the vector of the sender.  push.recv keeps, for every vector
\* received, what it held when it arrived.

MaxVec == 3

MaxCoeff == 2

MaxInputs == 3

ErrSize == "input vector size does not match size"

Zeros(n) == [k \in 1..n |-> 0]

CoeffN(n) == [j \in 1..n |-> 1]

\* The remainder of Go, which has the sign of a.
GoRem(a, b) == IF a >= 0 THEN a % b ELSE -((-a) % b)

\* Modulo: ret := a % b; if ret < 0 { ret += b }.
Modulo(a, b) ==
  LET ret == GoRem(a, b)
  IN IF ret < 0 THEN ret + b ELSE ret

\* NewDiffProc: delta = len(coeff), bufSize = 2*delta + 1, and a buffer of
\* bufSize vectors of size zeros.
NewDiffProc(size, coeff) ==
  LET delta == Len(coeff)
      bufSize == 2 * delta + 1
  IN [cap |-> 0, size |-> size, coeff |-> coeff, delta |-> delta, bufSize |-> bufSize,
      buf |-> [k \in 1..bufSize |-> k],
      vecs |-> [k \in 1..bufSize |-> Zeros(size)],
      recv |-> << >>, i |-> 0, out |-> <<>>, ret |-> "running",
      panic |-> FALSE, reset |-> FALSE]

\* DiffProc.Reset: for i, vec := range dp.buf { for j := range vec {
\* dp.buf[j][i] = 0 } }.  An index out of range panics, with the elements
\* written so far left as they are.
RECURSIVE DiffResetLoop(_, _, _)
DiffResetLoop(D, i, j) ==
  IF i >= Len(D.buf)
  THEN [D EXCEPT !.reset = TRUE]
  ELSE IF j >= Len(D.vecs[D.buf[i + 1]])
       THEN DiffResetLoop(D, i + 1, 0)
       ELSE IF j >= Len(D.buf) \/ i >= Len(D.vecs[D.buf[j + 1]])
            THEN [D EXCEPT !.reset = TRUE, !.panic = TRUE]
            ELSE DiffResetLoop([D EXCEPT !.vecs[D.buf[j + 1]][i + 1] = 0], i, j + 1)

DiffReset(D) == DiffResetLoop(D, 0, 0)

\* The vector sent for the frame just stored: the sum over j of coeff[j]
\* times (buf[plus] - buf[minus]).
RECURSIVE DiffSum(_, _, _)
DiffSum(D, j, v) ==
  IF j >= D.delta
  THEN v
  ELSE LET minus == D.vecs[D.buf[Modulo(D.i - j - 1, D.bufSize) + 1]]
           plus == D.vecs[D.buf[Modulo(D.i + j + 1, D.bufSize) + 1]]
       IN DiffSum(D, j + 1,
                  [k \in 1..D.size |-> v[k] + D.coeff[j + 1] * (plus[k] - minus[k])])

\* One turn of the loop of DiffProc.RunProc on the vector input, which the
\* sender holds under the number id.
DiffRunProc(D, id, input) ==
  IF Len(input) # D.size
  THEN [D EXCEPT !.ret = ErrSize]
  ELSE LET S == [D EXCEPT !.buf[D.i + 1] = id,
                          !.vecs = MapSet(D.vecs, id, input),
                          !.recv = MapSet(D.recv, id, input)]
       IN [S EXCEPT !.out = Append(@, DiffSum(S, 0, Zeros(D.size))),
                    !.i = (D.i + 1) % D.bufSize]

DiffInput ==
  /\ push.ret = "running" /\ ~push.reset
  /\ Cardinality(DOMAIN push.recv) < MaxInputs
  /\ \E n \in 1..MaxVec : \E input \in [1..n -> 1..2] :
       push' = DiffRunProc(push, Len(push.vecs) + 1, input)
  /\ last' = NoOp("RunProc", NoNode, push.i, push'.ret)
  /\ PullUnchanged

\* The input channel is closed: RunProc returns nil.
DiffClosed ==
  /\ push.ret = "running" /\ ~push.reset
  /\ push' = [push EXCEPT !.ret = NoErr]
  /\ last' = NoOp("RunProc", NoNode, push.i, NoErr)
  /\ PullUnchanged

DoDiffReset ==
  /\ push.ret # "running" /\ ~push.reset
  /\ push' = DiffReset(push)
  /\ last' = NoOp("Reset", NoNode, 0, NoErr)
  /\ PullUnchanged

InitPushDiff ==
  /\ \E size \in 1..MaxVec, n \in 0..MaxCoeff : push = NewDiffProc(size, CoeffN(n))
  /\ procs = NewApp.procs
  /\ appInputs = NewApp.appInputs
  /\ inputs = NewApp.inputs
  /\ cache = NewApp.cache
  /\ one = NewApp.one
  /\ rng = 0
  /\ wavIdx = 0
  /\ cnt = 0
  /\ cntR = 0
  /\ fresh = TRUE
  /\ watch = NoWatch
  /\ last = NoOp("NewDiffProc", NoNode, 0, NoErr)

NextPushDiff == DiffInput \/ DiffClosed \/ DoDiffReset

SpecPushDiff == InitPushDiff /\ [][NextPushDiff]_vars

\* ------------------------------------------------------------ properties
\* The last operation was a Get of frame w[2] on the node of processor w[1].
LastIsGetOn(w) == last.op = "Get" /\ last.node.typ = w[1] /\ last.idx = w[2]

\* C1, as stated: whenever a Get has been made at an index, the compute
\* function of the node has been invoked exactly once for that index since the
\* last reset.
C1_ExactlyOnceEveryIndex == LastIsGetOn(watch) => cntR = 1

\* C1, amended: the compute function of a node succeeds at most once for an
\* index between two resets.  A Get at an index that is not cached and that
\* succeeds is the one that invokes it and caches what it returns; from then
\* on, until the next reset, no request invokes it again for that index, the
\* entry stays what it is and every Get at that index returns it.  (A failed
\* invocation caches nothing and is repeated by the next Get at that index.)
C1_Step ==
  LET p == watch[1]
      i == watch[2]
  IN  /\ Count(last'.calls, watch) <= 1
      /\ (cacheHas(cache[p], i) /\ last'.op # "Reset") =>
            /\ cntR' = cntR
            /\ cacheHas(cache'[p], i)
            /\ cache'[p][i] = cache[p][i]
            /\ LastIsGetOn(watch)' => (last'.err = NoErr /\ last'.val = cache[p][i])
      /\ (~cacheHas(cache[p], i) /\ LastIsGetOn(watch)' /\ last'.err = NoErr) =>
            /\ cacheHas(cache'[p], i)
            /\ cache'[p][i] = last'.val
            /\ cntR' = cntR + 1

C1_OnceUntilReset == [][C1_Step]_vars

\* A repeated Get on the random source is answered from the cache.
C1_Witness ==
  /\ watch[1] = "s1"
  /\ LastIsGetOn(watch)
  /\ last.err = NoErr
  /\ last.calls = <<>>
  /\ cntR = 1

\* C4: a Get request, on whatever node, leaves every entry that a cache holds
\* in place and with the value it had.
C4_Step ==
  last'.op = "Get" =>
    \A p \in Processers : \A i \in DOMAIN cache[p] :
      cacheHas(cache'[p], i) /\ cache'[p][i] = cache[p][i]

C4_WriteOnce == [][C4_Step]_vars

\* A Get on the Join node that found the source cached and added an entry of
\* its own next to an older one.
C4_Witness ==
  /\ last.op = "Get"
  /\ last.node.typ = "j"
  /\ last.err = NoErr
  /\ last.calls # <<>>
  /\ Cardinality(DOMAIN cache["j"]) = 2
  /\ Count(last.calls, <<"s1", last.idx>>) = 0

\* C5: App.Reset leaves the cache of every registered Proc empty, and the
\* first Get at an index after a reset invokes the compute function of the
\* node once more, also when it had been invoked for that index before.
C5_Step ==
  /\ last'.op = "Reset" => \A p \in Resetters(procs) \cap Procs : cache'[p] = newCache
  /\ (cnt >= 1 /\ cntR = 0 /\ LastIsGetOn(watch)') => cnt' = cnt + 1

C5_ResetRecomputes == [][C5_Step]_vars

\* The watched index was computed and cached, the graph was reset, and a Get
\* computed it a second time.
C5_Witness ==
  /\ watch[2] < SrcLen
  /\ LastIsGetOn(watch)
  /\ last.err = NoErr
  /\ cnt = 2
  /\ cntR = 1

\* C8: over the source of SrcLen frames, a Get at an index below SrcLen
\* succeeds; a Get at SrcLen or beyond returns the ErrOOB of the source and no
\* value, invokes the compute function of no node more than once, and no node
\* ever holds an entry at such an index.
C8_ErrorsPropagate ==
  /\ \A p \in Processers : \A i \in DOMAIN cache[p] : i < SrcLen
  /\ (last.op = "Get" /\ last.idx >= 0 /\ last.idx < SrcLen) => last.err = NoErr
  /\ (last.op = "Get" /\ last.idx >= SrcLen) =>
        /\ last.err = ErrOOB
        /\ last.val = Nil
        /\ \A p \in Processers : Count(last.calls, <<p, last.idx>>) <= 1

\* The request passed through Join and Scale down to the source and back.
C8_Witness ==
  /\ last.op = "Get"
  /\ last.idx = SrcLen
  /\ last.err = ErrOOB
  /\ last.calls = <<<<"j", SrcLen>>, <<"a", SrcLen>>, <<"s1", SrcLen>>>>

\* C2: a Get at a negative index on a Proc, with or without a compute
\* function and whatever its cache holds, returns ErrOOB and no value, invokes
\* no compute function and changes no cache; and no request ever invokes a
\* compute function through Proc.Get at a negative index.
C2_Step ==
  /\ \A k \in 1..Len(last'.calls) : last'.calls[k][2] >= 0
  /\ (last'.op = "Get" /\ last'.idx < 0 /\ last'.node.typ \in Procs) =>
        /\ last'.err = ErrOOB
        /\ last'.val = Nil
        /\ last'.calls = <<>>
        /\ last'.oneCalls = <<>>
        /\ cache' = cache
        /\ one' = one

C2_NegativeIndex == [][C2_Step]_vars

\* Get(-1) on the Proc without a compute function while its cache holds entries
\* and its consumer holds one as well.
C2_Witness ==
  /\ last.op = "Get"
  /\ last.idx = -1
  /\ last.node.typ = "nof"
  /\ last.err = ErrOOB
  /\ cache["nof"] # newCache
  /\ cache["d"] # newCache

\* C9: a Get at an index >= 0 on a Proc without a compute function returns the
\* cached value when the index is in the cache and ErrNoFunc with no value
\* when it is not; in both cases every cache is left as it was.
C9_Step ==
  LET p == last'.node.typ
      i == last'.idx
  IN  (last'.op = "Get" /\ i >= 0 /\ p \in Procs /\ Fn[p] = "nil") =>
        /\ cache' = cache
        /\ last'.calls = <<>>
        /\ IF cacheHas(cache[p], i)
           THEN last'.err = NoErr /\ last'.val = cache[p][i]
           ELSE last'.err = ErrNoFunc /\ last'.val = Nil

C9_Unconfigured == [][C9_Step]_vars

\* ErrNoFunc at an index that is not cached while another index is.
C9_Witness ==
  /\ last.op = "Get"
  /\ last.idx >= 0
  /\ last.node.typ = "nof"
  /\ last.err = ErrNoFunc
  /\ cache["nof"] # newCache

\* C3: a Get on a Proc that fails leaves no entry at its index; a Get at an
\* index >= 0 that is not cached invokes the compute function of the node
\* (again, when an earlier Get at that index failed), and when it succeeds the
\* value it returns is the one the cache then holds.
C3_Step ==
  LET p == last'.node.typ
      i == last'.idx
  IN  (last'.op = "Get" /\ p \in Procs /\ i >= 0) =>
        /\ last'.err # NoErr => ~cacheHas(cache'[p], i)
        /\ (~cacheHas(cache[p], i) /\ Fn[p] # "nil") => Count(last'.calls, <<p, i>>) = 1
        /\ (~cacheHas(cache[p], i) /\ last'.err = NoErr) =>
              cacheHas(cache'[p], i) /\ cache'[p][i] = last'.val

C3_FailureNotCached == [][C3_Step]_vars

\* Frame 0 of c was computed twice since the last reset: the first computation
\* failed (no waveform was loaded), the second one succeeded and is cached.
C3_Witness ==
  /\ LastIsGetOn(watch)
  /\ last.err = NoErr
  /\ cntR = 2
  /\ cacheHas(cache["c"], 0)
  /\ cache["c"][0] = last.val

\* The memory with every cache empty: what a request computes from it is
\* computed from the current waveform alone.
FreshMem ==
  [Mem EXCEPT !.cache = [p \in Processers |-> newCache],
              !.one = [p \in Processers |-> Nil]]

\* Every cached frame, every cached aggregate and the value last returned are
\* what the graph computes from the current waveform.
CurrentStreamOnly ==
  /\ \A n \in Range(procs) :
        /\ n.typ \in Procs =>
             \A i \in DOMAIN cache[n.typ] :
               cache[n.typ][i] = NodeGet(n, i, FreshMem).val
        /\ (n.typ \in OneProcs /\ one[n.typ].iface) =>
             one[n.typ] = NodeGetOne(n, FreshMem).val
  /\ (last.op = "Get" /\ last.err = NoErr) =>
        last.val = NodeGet(last.node, last.idx, FreshMem).val
  /\ (last.op = "GetOne" /\ last.err = NoErr) =>
        last.val = NodeGetOne(last.node, FreshMem).val

\* C6: App.Reset empties the cache of every registered Proc and the aggregate
\* of every registered OneProc; and once App.Reset has been called after the
\* source moved to its next waveform, whatever a node caches or returns is
\* computed from the current waveform.
C6_ResetStep ==
  last'.op = "Reset" =>
    \A n \in Range(procs) :
      /\ n.typ \in Procs => cache'[n.typ] = newCache
      /\ n.typ \in OneProcs => one'[n.typ] = Nil

C6_GraphReuse == [][C6_ResetStep]_vars /\ [](fresh => CurrentStreamOnly)

\* The second waveform is loaded, the graph was reset, and zm returned frame 0
\* from the aggregate of the second waveform; frame 0 of c had been requested
\* before the reset as well.
C6_Witness ==
  /\ wavIdx = 2
  /\ fresh
  /\ last.op = "Get"
  /\ last.node.typ = "zm"
  /\ last.idx = 0
  /\ last.err = NoErr
  /\ ~one["mx"].isNil
  /\ cnt = 2
  /\ cntR = 1

\* C7: App.Reset leaves the name table, the inputs bound to every processor
\* (and their order) and the recorded edges as they were.
C7_Step ==
  last'.op = "Reset" => (procs' = procs /\ inputs' = inputs /\ appInputs' = appInputs)

C7_ResetKeepsWiring == [][C7_Step]_vars

\* A reset of the wired graph after frames were computed.
C7_Witness ==
  /\ last.op = "Reset"
  /\ cnt >= 1
  /\ inputs["zm"] = <<"c", "mx">>
  /\ appInputs[procs[<<"z", "m">>]] = <<procs[<<"c">>], procs[<<"m", "x">>]>>
  /\ \A p \in Processers : cache[p] = newCache

\* Every key of the name table is a trimmed name and maps to a node of that name.
NamesAreKeys ==
  \A nm \in DOMAIN procs : procs[nm].name = nm /\ TrimSpace(nm) = nm

\* C10: Add with a name whose trimmed form is registered panics with the
\* name-collision error and leaves the registry as it was; otherwise it
\* registers a node of the trimmed name and changes no other entry.  Hence
\* every registered name maps to one node, whose Name() is that name.
C10_Step ==
  LET nm == TrimSpace(last'.name)
  IN  last'.op = "Add" =>
        IF nm \in DOMAIN procs
        THEN /\ last'.err = PanicNameTaken
             /\ procs' = procs
             /\ appInputs' = appInputs
             /\ inputs' = inputs
        ELSE /\ last'.err = NoErr
             /\ last'.node = [name |-> nm, typ |-> last'.typ]
             /\ DOMAIN procs' = (DOMAIN procs) \cup {nm}
             /\ procs'[nm] = last'.node
             /\ \A k \in DOMAIN procs : procs'[k] = procs[k]

C10_NameUnique == [][C10_Step]_vars /\ []NamesAreKeys

\* Add of another processor under a name that collides only after trimming.
C10_Witness ==
  /\ last.op = "Add"
  /\ last.err = PanicNameTaken
  /\ last.name # TrimSpace(last.name)
  /\ procs[TrimSpace(last.name)].typ # last.typ
  /\ Cardinality(DOMAIN procs) = 2

\* C11: Connect on a consumer that does not implement Inputter panics and
\* changes neither the inputs bound to any processor nor the recorded edges
\* nor the name table; on a consumer that does, it binds and returns no error.
C11_Step ==
  last'.op = "Connect" =>
    IF IsInputter(last'.node.typ)
    THEN /\ last'.err = NoErr
         /\ appInputs'[last'.node] = last'.from
    ELSE /\ last'.err = PanicNotInputter
         /\ inputs' = inputs
         /\ appInputs' = appInputs
         /\ procs' = procs

C11_ConnectFailsFast == [][C11_Step]_vars

\* Connect of two providers to the node of a value without SetInputs, in a
\* graph that holds edges already.
C11_Witness ==
  /\ last.op = "Connect"
  /\ last.node.typ = "raw"
  /\ Len(last.from) = 2
  /\ last.err = PanicNotInputter
  /\ DOMAIN appInputs # {}

\* C12: Connect with a provider handle that no Add of this App returned fails
\* and binds nothing.
C12_Step ==
  (last'.op = "Connect" /\ \E k \in 1..Len(last'.from) : last'.from[k] \notin Range(procs)) =>
    /\ last'.err # NoErr
    /\ inputs' = inputs
    /\ appInputs' = appInputs

C12_UnknownProviderFails == [][C12_Step]_vars

\* C14: once Connect or Chain has bound the inputs of a node, no later Connect
\* or Chain changes the inputs bound to it.
C14_Step ==
  last'.op \in {"Connect", "Chain"} =>
    \A n \in DOMAIN appInputs :
      /\ appInputs'[n] = appInputs[n]
      /\ inputs'[n.typ] = inputs[n.typ]

C14_BoundOnce == [][C14_Step]_vars

\* The frames i of the nodes from[k..] as a consumer gets them, one after the other.
RECURSIVE ConcatGets(_, _, _)
ConcatGets(from, k, i) ==
  IF k > Len(from) THEN <<>>
  ELSE NodeGet(from[k], i, Mem).val.data \o ConcatGets(from, k + 1, i)

\* C13: Connect(y, x0, ..., xk) binds the processors of x0..xk to y in that
\* order, and frame i of a Join node is the frames i of its providers, in the
\* order of the Connect call, one after the other.
C13_Step ==
  (last'.op = "Connect" /\ last'.err = NoErr) =>
    /\ inputs'[last'.node.typ] = [k \in 1..Len(last'.from) |-> last'.from[k].typ]
    /\ appInputs'[last'.node] = last'.from

C13_JoinValue ==
  (last.op = "Get" /\ Fn[last.node.typ] = "Join" /\ last.err = NoErr) =>
    /\ \A k \in 1..Len(appInputs[last.node]) :
         NodeGet(appInputs[last.node][k], last.idx, Mem).err = NoErr
    /\ last.val.data = ConcatGets(appInputs[last.node], 1, last.idx)

C13_PositionalFanIn == [][C13_Step]_vars /\ []C13_JoinValue

\* j was connected to (s1, a), the reverse of the order of the tests, and its
\* frame is the frame of s1 followed by the frame of a, which differ.
C13_Witness ==
  /\ last.op = "Get"
  /\ last.node = TestAdd3.node
  /\ last.err = NoErr
  /\ appInputs[last.node] = <<TestAdd1.node, TestAdd2.node>>
  /\ last.val.data = <<1, Alpha>>

\* The calls Connect(nodes[j], nodes[j+1]), Connect(nodes[j+1], nodes[j+2]), ...
\* one after the other on the App A; a panic ends the sequence.
RECURSIVE ConnectEach(_, _, _)
ConnectEach(A, nodes, j) ==
  IF j > Len(nodes) - 1 THEN [app |-> A, node |-> nodes[1], err |-> NoErr]
  ELSE LET r == AppConnect(A, nodes[j], <<nodes[j + 1]>>)
       IN  IF r.err # NoErr THEN r ELSE ConnectEach(r.app, nodes, j + 1)

\* C15: Chain(n0, ..., nk) leaves the App and the processors as the calls
\* Connect(n0, n1), ..., Connect(n(k-1), nk) leave them and returns n0; when
\* the nodes are distinct, each nj with j < k has the single input n(j+1) and
\* the inputs of nk are as before; and a Get on the head of the chain
\* d <- a <- sl at an index nothing holds invokes d, a and sl in turn.
C15_Step ==
  LET nodes == last'.from
      k == Len(nodes)
      e == ConnectEach(Heap, nodes, 1)
  IN  /\ (last'.op = "Chain" /\ k >= 1) =>
            /\ Heap' = e.app
            /\ last'.err = e.err
            /\ last'.node = e.node
            /\ (last'.err = NoErr /\ Cardinality(Range(nodes)) = k) =>
                  /\ last'.node = nodes[1]
                  /\ \A j \in 1..(k - 1) :
                        /\ inputs'[nodes[j].typ] = <<nodes[j + 1].typ>>
                        /\ appInputs'[nodes[j]] = <<nodes[j + 1]>>
                  /\ inputs'[nodes[k].typ] = inputs[nodes[k].typ]
      /\ ( /\ last'.op = "Get"
           /\ last'.node.typ = "d"
           /\ last'.idx >= 0
           /\ inputs["d"] = <<"a">>
           /\ inputs["a"] = <<"sl">>
           /\ \A p \in Processers : ~cacheHas(cache[p], last'.idx) ) =>
            last'.calls = << <<"d", last'.idx>>, <<"a", last'.idx>>, <<"sl", last'.idx>> >>

C15_ChainIsConnects == [][C15_Step]_vars

\* One Chain call wired d <- a <- sl, and a Get on d pulled frame 0 through.
C15_Witness ==
  /\ last.op = "Get"
  /\ last.node = ChainAdd3.node
  /\ last.err = NoErr
  /\ appInputs = (ChainAdd3.node :> <<ChainAdd2.node>>) @@ (ChainAdd2.node :> <<ChainAdd1.node>>)
  /\ last.calls = << <<"d", 0>>, <<"a", 0>>, <<"sl", 0>> >>
  /\ last.val = NA(<<SliceData[1] * Alpha * Alpha>>)

\* The Fibonacci series f(0) = f(1) = 1, f(i) = f(i-1) + f(i-2).
RECURSIVE Fibonacci(_)
Fibonacci(i) == IF i <= 1 THEN 1 ELSE Fibonacci(i - 1) + Fibonacci(i - 2)

\* C16: on the node wired to itself, Get(n) for 0 <= n < N returns the n-th
\* Fibonacci value with at most n + 1 nested Get calls (none is cut off by the
\* stack), and Get(n) for n >= N returns ErrOOB.
C16_FiboTerminates ==
  last.op = "Get" =>
    /\ last.err # FatalStack
    /\ (last.idx >= 0 /\ last.idx < FiboN) =>
          /\ last.err = NoErr
          /\ last.val = NA(<<Fibonacci(last.idx)>>)
          /\ last.depth <= last.idx + 1
    /\ last.idx >= FiboN => last.err = ErrOOB

\* Get(10) on empty caches: 89, computed with 10 nested Get calls and one
\* invocation of the compute function per index 10, 9, ..., 0.
C16_Witness ==
  /\ last.op = "Get"
  /\ last.idx = 10
  /\ last.val = NA(<<89>>)
  /\ last.depth = 10
  /\ Len(last.calls) = 11

\* C17: the value and the error of Get(node, i) are those a request on empty
\* caches computes, whatever requests (out of order, with gaps, repeated) and
\* resets came before.
C17_OrderIndependent ==
  last.op = "Get" =>
    /\ last.val = NodeGet(last.node, last.idx, FreshMem).val
    /\ last.err = NodeGet(last.node, last.idx, FreshMem).err

\* Frame 3 of diff served after frame 7 was, and neither frame 0 nor frame 5.
C17_Witness ==
  /\ last.op = "Get"
  /\ last.node = DiffAdd2.node
  /\ last.idx = 3
  /\ last.err = NoErr
  /\ cacheHas(cache["diff"], 7)
  /\ ~cacheHas(cache["diff"], 5)
  /\ ~cacheHas(cache["diff"], 0)

\* sum over k in j..delta-1 of c[k] * (x[i+k+1] - x[i-k-1]), indices from 0.
RECURSIVE WeightedDiff(_, _)
WeightedDiff(i, j) ==
  IF j >= Delta THEN 0
  ELSE Coeff[j + 1] * (DiffData[i + j + 2] - DiffData[i - j]) + WeightedDiff(i, j + 1)

\* The frames TestDiff expects.
DiffExpected == <<4, 4, 4, 1, -5, -3, -1, 3, -3>>

RECURSIVE SumData(_, _)
SumData(a, b) == IF a > b THEN 0 ELSE MAData[a + 1] + SumData(a + 1, b)

\* The frames TestMovingAverage expects.
MAExpected == <<1, 2, 3, 3, 3, 3, 5, 3, 2, 0>>

\* C19: for 0 <= i < L, MAProc.Get(i) is the mean of the input frames
\* max(0, i - M + 1) .. i, whatever requests and resets came before; on the
\* input of TestMovingAverage these are the frames the test expects.
C19_MovingAverage ==
  (last.op = "Get" /\ last.node = MAAdd2.node
     /\ last.idx >= 0 /\ last.idx < Len(MAData)) =>
    /\ last.err = NoErr
    /\ last.val = NAQ(<<Quot(SumData(Max(0, last.idx - WinSize + 1), last.idx),
                            last.idx - Max(0, last.idx - WinSize + 1) + 1)>>)
    /\ last.val = NAQ(<<Quot(MAExpected[last.idx + 1], 1)>>)

\* Frame 2, the mean of the three frames there are, served after frame 6 was
\* and before frames 0 and 1 were requested.
C19_Witness ==
  /\ last.op = "Get"
  /\ last.node = MAAdd2.node
  /\ last.idx = 2
  /\ last.val = NAQ(<<Quot(3, 1)>>)
  /\ DOMAIN cache["ma"] = {2, 6}

\* C18: once a Get() on a OneProc has returned without error, the Get() on it
\* that comes next, with no Reset in between, returns the same value and
\* invokes no compute function, whatever the value is.
C18_OncePerStream ==
  (last.op = "GetOne" /\ last.err = NoErr) =>
    /\ NodeGetOne(last.node, Mem).err = NoErr
    /\ NodeGetOne(last.node, Mem).val = last.val
    /\ NodeGetOne(last.node, Mem).m.oneCalls = <<>>

\* The sum of the Fibonacci series up to index i.
RECURSIVE SumFibonacci(_)
SumFibonacci(i) == IF i < 0 THEN 0 ELSE Fibonacci(i) + SumFibonacci(i - 1)

\* C21: dsp.Get returns p.Get(idx) for a Framer, p.Get() for a OneValuer and
\* an error for any other processor: Sub wired as (fibo, mean) returns
\* fibo(i) minus the mean of the series at every index i, 89 - 232/11 at
\* i = 10, and Sub wired to a processor without Get returns the error.
C21_Dispatch ==
  /\ \A n \in Range(procs) : \A i \in 0..FiboN :
        /\ IsFramer(n.typ) =>
              Get(n.typ, i, Mem, 1).val = NodeGet(n, i, Mem).val
        /\ IsOneValuer(n.typ) =>
              Get(n.typ, i, Mem, 1).val = NodeGetOne(n, Mem).val
        /\ (~IsFramer(n.typ) /\ ~IsOneValuer(n.typ)) =>
              Get(n.typ, i, Mem, 1).err = ErrUnsupported
  /\ (last.op = "Get" /\ last.node = ZMAdd3.node
        /\ last.idx >= 0 /\ last.idx < FiboN) =>
        /\ last.err = NoErr
        /\ last.val = NAQ(<<Quot(Fibonacci(last.idx) * FiboN - SumFibonacci(FiboN - 1),
                                 FiboN)>>)
        /\ last.idx = 10 => last.val = NAQ(<<Quot(89 * 11 - 232, 11)>>)
  /\ (last.op = "Get" /\ last.node = ZMAdd5.node
        /\ last.idx >= 0 /\ last.idx < FiboN) =>
        last.err = ErrUnsupported

\* fiboZM.Get(10) on empty caches: 747/11, with the mean computed once.
C21_Witness ==
  /\ last.op = "Get"
  /\ last.node = ZMAdd3.node
  /\ last.idx = 10
  /\ last.val = NAQ(<<[num |-> 747, den |-> 11]>>)
  /\ last.oneCalls = <<"mean">>
  /\ one["mean"] = NAQ(<<[num |-> 232, den |-> 11]>>)

\* C22: with frame size and step size at least 1, Iter.Frame(i) returns a
\* frame exactly when 0 <= i < NumFrames() and ErrOOB for every other index,
\* and NumFrames() is n/2 when both sizes are 2.
C22_FrameBounds ==
  last.op = "Frame" =>
    /\ (last.err = NoErr) <=> (last.idx >= 0 /\ last.idx < last.numFrames)
    /\ last.err # NoErr => last.err = ErrOOB
    /\ (last.frameSize = 2 /\ last.stepSize = 2) =>
          last.numFrames = Len(last.samples) \div 2

\* The outcomes in which a call does not return to its caller.
Crashes ==
  {PanicConversion, PanicIndex, PanicShape, PanicNilDeref, PanicNameTaken,
   PanicNotInputter, FatalStack, FatalHang}

\* C23: a Get request on a registered node that is a Proc returns a value or
\* an error to its caller in every wiring state, the one where the inputs of
\* the node were never bound included: it never crashes.
C23_ValueOrError ==
  (last.op = "Get" /\ last.node \in Range(procs) /\ last.node.typ \in Procs) =>
    last.err \notin Crashes

\* C24: Connect wires a node to itself without an error, and a Get on such a
\* node whose compute function reads its input at the same or at the next
\* index does not return: the nesting of Get calls passes every depth (it
\* is followed up to MaxDepth) and nothing is cached.
C24_NoCycleDetection ==
  /\ (last.op = "Connect" /\ last.from = <<last.node>>) =>
        /\ last.err = NoErr
        /\ inputs[last.node.typ] = <<last.node.typ>>
  /\ (last.op = "Get" /\ last.idx >= 0
        /\ Fn[last.node.typ] \in {"Scale", "ahead"}
        /\ inputs[last.node.typ] = <<last.node.typ>>) =>
        /\ last.err = FatalStack
        /\ last.depth = MaxDepth
        /\ cache[last.node.typ] = newCache

\* Get(0) on the Scale node a after Connect(a, a).
C24_Witness ==
  /\ last.op = "Get"
  /\ last.node = LoopAdd2.node
  /\ last.idx = 0
  /\ inputs["a"] = <<"a">>
  /\ last.err = FatalStack
  /\ Len(last.calls) = MaxDepth

\* The window the comment of DiffProc gives for frame i of N: delta, shrunk
\* to i at the head of the stream and to N - 1 - i at its end.
DocDelta(i) ==
  IF i <= Delta THEN i
  ELSE IF i >= Len(DiffData) - Delta - 1 THEN Len(DiffData) - 1 - i
  ELSE Delta

\* sum over k in j..dl-1 of c[k] * (x[i+k+1] - x[i-k-1]), indices from 0.
RECURSIVE ShrunkDiff(_, _, _)
ShrunkDiff(i, j, dl) ==
  IF j >= dl THEN 0
  ELSE Coeff[j + 1] * (DiffData[i + j + 2] - DiffData[i - j]) + ShrunkDiff(i, j + 1, dl)

\* C25: at the edges of the stream DiffProc shrinks its window as its comment
\* says, so that Get(i) returns a value, the weighted difference over the
\* shrunk window, for every 0 <= i <= N - 1.
C25_ShrunkWindow ==
  (last.op = "Get" /\ last.node = DiffAdd2.node
     /\ last.idx >= 0 /\ last.idx <= Len(DiffData) - 1) =>
    /\ last.err = NoErr
    /\ last.val = NA(<<ShrunkDiff(last.idx, 0, DocDelta(last.idx))>>)

\* norm(x[i]) of the input of the MaxNorm, 0 before the first frame.
NormAt(i) == IF i < 0 THEN 0 ELSE Abs(NormData[i + 1])

\* C26: MaxNorm.Get(idx) requests the input frame at every index 0, ..., idx
\* (so that each is in the cache of the input afterwards), and its value is
\* max(alpha * norm(x[idx-1]), norm(x[idx])).
C26_MaxNormRange ==
  (last.op = "Get" /\ last.node = NormAdd2.node
     /\ last.idx >= 0 /\ last.idx < Len(NormData)) =>
    /\ last.err = NoErr
    /\ \A i \in 0..last.idx : cacheHas(cache["nsl"], i)
    /\ last.val = NAQ(<<MaxOf(NormAt(last.idx - 1), NormAt(last.idx))>>)

\* C27: after Add(name, p) has succeeded, NodeByName(name) and
\* NodesByName(name), called with the string that was handed to Add, resolve
\* to the node Add returned, whatever whitespace the name begins or ends with.
C27_AddLookupRoundTrip ==
  (last.op = "Add" /\ last.err = NoErr) =>
    /\ NodeByName(Heap, last.name).err = NoErr
    /\ NodeByName(Heap, last.name).node = last.node
    /\ NodesByName(Heap, <<last.name>>).err = NoErr
    /\ NodesByName(Heap, <<last.name>>).nodes = <<last.node>>

\* C28: a Chain call that fails because one of its nodes is no Inputter has
\* changed no input binding and no recorded edge, those of the nodes before
\* the offending one included.
C28_Step ==
  (last'.op = "Chain" /\ last'.err = PanicNotInputter) =>
    (inputs' = inputs /\ appInputs' = appInputs)

C28_ChainAllOrNothing == [][C28_Step]_vars

\* C29: Get(i) with i < 0 returns ErrOOB on every node that serves frames
\* and stores nothing: no cache has a negative key.
C29_NoNegativeKey ==
  /\ \A p \in Processers : \A i \in DOMAIN cache[p] : i >= 0
  /\ (last.op = "Get" /\ last.idx < 0) => last.err = ErrOOB

\* The nodes reachable from the nodes of S through at most k recorded edges.
RECURSIVE ReachN(_, _)
ReachN(S, k) ==
  IF k = 0 THEN S
  ELSE ReachN(S \cup UNION {Range(appInputs[n]) : n \in S \cap DOMAIN appInputs}, k - 1)

Reach(n) == ReachN({n}, Cardinality(Range(procs)))

\* C30: a Get request on node A changes the cache of no node that is neither
\* A nor reachable from A through input bindings, and no two nodes share a
\* cache.
C30_Step ==
  last'.op = "Get" =>
    \A n \in Range(procs) \ Reach(last'.node) :
      /\ cache'[n.typ] = cache[n.typ]
      /\ one'[n.typ] = one[n.typ]

C30_Unshared ==
  \A n1, n2 \in Range(procs) : n1 # n2 => n1.typ # n2.typ

C30_OwnCache == [][C30_Step]_vars /\ []C30_Unshared

\* The nodes a request on n passes through: those reached from n over the
\* edges of nodes whose compute function reads its input at the index it is
\* asked for (Scale); a source reads no input.
RECURSIVE BelowN(_, _)
BelowN(S, k) ==
  IF k = 0 THEN S
  ELSE BelowN(S \cup UNION {Range(appInputs[n]) :
                              n \in {x \in S \cap DOMAIN appInputs : Fn[x.typ] = "Scale"}},
              k - 1)

Below(n) == BelowN({n}, Cardinality(Range(procs)))

\* C31: after a Get(i) on a node has succeeded, every Proc node on the chain
\* below it (the node itself included) holds an entry for i, and a Get(i) on
\* any of them that follows succeeds without invoking a compute function.
C31_CachedAtEveryLevel ==
  (last.op = "Get" /\ last.err = NoErr) =>
    \A n \in Below(last.node) :
      n.typ \in Procs =>
        /\ cacheHas(cache[n.typ], last.idx)
        /\ NodeGet(n, last.idx, Mem).err = NoErr
        /\ NodeGet(n, last.idx, Mem).m.calls = <<>>

\* Get(0) on a after Chain(a, d, sl), on empty caches: the request went down
\* to the source through both Scale nodes.
C31_Witness ==
  /\ last.op = "Get"
  /\ last.node = ChainAdd2.node
  /\ last.idx = 0
  /\ last.err = NoErr
  /\ last.calls = <<<<"a", 0>>, <<"d", 0>>, <<"sl", 0>>>>
  /\ Below(last.node) = {ChainAdd1.node, ChainAdd2.node, ChainAdd3.node}

\* C32: between two resets the cache of a node only grows: every operation
\* but a reset leaves each entry in place with its value, also when the cache
\* holds more than BufSize entries, and the compute function is not invoked
\* for an index that is cached.
C32_Step ==
  last'.op # "Reset" =>
    \A p \in Processers : \A i \in DOMAIN cache[p] :
      /\ cacheHas(cache'[p], i)
      /\ cache'[p][i] = cache[p][i]
      /\ Count(last'.calls, <<p, i>>) = 0

C32_NoEviction == [][C32_Step]_vars

\* The Fibonacci node holds more frames than the capacity of its cache, the
\* first of them included, and a Get at index 0 was answered from the cache.
C32_Witness ==
  /\ Cardinality(DOMAIN cache["fib"]) > BufSize
  /\ cacheHas(cache["fib"], 0)
  /\ last.op = "Get"
  /\ last.idx = 0
  /\ last.err = NoErr
  /\ last.calls = <<>>

\* The calls of the trace that processor p made on itself.
SelfCalls(calls, p) == SelectSeq(calls, LAMBDA c : c[1] = p)

\* C33: a Get(idx) with idx >= 0 on a DiffProc of delta coefficients returns
\* a value or an error after at most delta calls of the DiffProc on itself,
\* nested and at the indices idx + 1, idx + 2, ... in this order, and after
\* none when idx >= delta.
C33_DiffTerminates ==
  (last.op = "Get" /\ last.node.typ \in DiffProcs /\ last.idx >= 0) =>
    /\ last.err \in {NoErr, ErrOOB}
    /\ Len(SelfCalls(last.calls, last.node.typ)) <= DeltaOf(last.node.typ)
    /\ \A k \in 1..Len(SelfCalls(last.calls, last.node.typ)) :
          SelfCalls(last.calls, last.node.typ)[k] = <<last.node.typ, last.idx + k>>
    /\ last.depth <= DeltaOf(last.node.typ) + 2
    /\ last.idx >= DeltaOf(last.node.typ) =>
          SelfCalls(last.calls, last.node.typ) = <<>>

\* Get(0) on empty caches on the DiffProc of delta 3: three nested calls on
\* itself, at 1, 2 and 3.
C33_Witness ==
  /\ last.op = "Get"
  /\ last.node = DeltaAdd2.node
  /\ last.idx = 0
  /\ last.err = NoErr
  /\ SelfCalls(last.calls, "diff3") = <<<<"diff3", 1>>, <<"diff3", 2>>, <<"diff3", 3>>>>
  /\ last.depth = 5

\* The number of frames L an upstream of SpecAgg serves: it succeeds at the
\* indices 0..L-1 and returns ErrOOB from L on.
UpLen(p) == IF p = "nsl" THEN Len(NormData) ELSE Len(SliceData)

\* The indices at which a trace invoked the compute function of p, in order.
RECURSIVE IndicesOf(_, _)
IndicesOf(calls, p) ==
  IF calls = <<>> THEN <<>>
  ELSE IF Head(calls)[1] = p THEN <<Head(calls)[2]>> \o IndicesOf(Tail(calls), p)
  ELSE IndicesOf(Tail(calls), p)

\* The sum and the maximum of the frames 0..n-1 in the cache c (of size 1).
RECURSIVE AggSum(_, _)
AggSum(c, n) == IF n = 0 THEN 0 ELSE c[n - 1].data[1] + AggSum(c, n - 1)
RECURSIVE AggMax(_, _)
AggMax(c, n) == IF n = 0 THEN MinFloat ELSE Max(c[n - 1].data[1], AggMax(c, n - 1))

\* C34: a Get() on a Mean or a MaxWin that computes, over an upstream that
\* serves L >= 1 frames, requests the upstream at the indices 0, 1, ..., L
\* in increasing order (those that were not cached are computed, in this
\* order, the one at L always), and returns and caches the aggregate of the
\* L frames; an error of the upstream other than ErrOOB is returned as it is
\* and nothing is cached.
C34_Step ==
  LET p == last'.node.typ
      up == inputs[p][1]
      asked == IndicesOf(last'.calls, up)
  IN  (last'.op = "GetOne" /\ last'.oneCalls = <<p>>) =>
        /\ up \in {"sl", "a", "nsl"} =>
              /\ last'.err = NoErr
              /\ \A k \in 1..Len(asked) - 1 : asked[k] < asked[k + 1]
              /\ Range(asked) = (0..UpLen(up)) \ DOMAIN cache[up]
              /\ DOMAIN cache'[up] = (DOMAIN cache[up]) \cup (0..UpLen(up) - 1)
              /\ Fn[p] = "Mean" =>
                    last'.val = NAQ(<<Quot(AggSum(cache'[up], UpLen(up)), UpLen(up))>>)
              /\ Fn[p] = "MaxWin" =>
                    last'.val = NA(<<AggMax(cache'[up], UpLen(up))>>)
              /\ one'[p] = last'.val
        /\ up \in {"nof", "raw"} =>
              /\ last'.err = (IF up = "nof" THEN ErrNoFunc ELSE ErrNotFramer)
              /\ last'.val = Nil
              /\ cache' = cache
              /\ one' = one

C34_ScanTerminates == [][C34_Step]_vars

\* The mean of the three frames 8, 2, -6, computed on empty caches: the
\* source was asked for the frames 0, 1, 2 and 3.
C34_Witness ==
  /\ last.op = "GetOne"
  /\ last.node = AggAdd6.node
  /\ inputs["mean"] = <<"nsl">>
  /\ last.calls = <<<<"nsl", 0>>, <<"nsl", 1>>, <<"nsl", 2>>, <<"nsl", 3>>>>
  /\ last.val = NAQ(<<[num |-> 4, den |-> 3]>>)
  /\ one["mean"] = last.val

\* p.RunProc of goroutine g has returned.
HasReturned(g) == push.pc[g] \in {"lock", "test", "set", "unlock", "close", "done"}

\* The processors of the pipeline that have returned an error.
Failed == {g \in {"src", "mid"} : HasReturned(g) /\ push.ret[g] # NoErr}

\* C35: the output channel of a processor is closed only after its RunProc
\* has returned and its error, if it returned one, is recorded, and it is
\* closed when runProc is done; hence once the consumer has seen the channel
\* of the pipeline closed, app.Error() is not nil if a processor has returned
\* an error, and is the error of one that has.
C35_ErrorBeforeClose ==
  /\ \A g \in Workers :
        push.chan[OutOf(g)].closed =>
          /\ HasReturned(g)
          /\ push.ret[g] # NoErr => (push.err # NoErr /\ push.ret[g] \in Range(push.log))
  /\ \A g \in Workers : push.pc[g] = "done" => push.chan[OutOf(g)].closed
  /\ (push.pc["main"] \in {"closed", "done"} /\ Failed # {}) =>
        push.err \in {push.ret[g] : g \in Failed}
  /\ push.pc["main"] = "done" => push.seen = push.err

\* The Reader failed after its first frame: the consumer received the frame,
\* saw the channel closed and app.Error() returned the error of the Reader.
C35_Witness ==
  /\ push.pc["main"] = "done"
  /\ push.got = <<1>>
  /\ push.ret["src"] = ErrSrc
  /\ push.ret["mid"] = NoErr
  /\ push.seen = ErrSrc

\* C36: app.Error() is nil as long as no processor has returned an error,
\* and from the first record on it is the error recorded first, whatever
\* errors are recorded after it and however the goroutines interleave.
C36_FirstErrorWins ==
  /\ push.err = (IF push.log = <<>> THEN NoErr ELSE push.log[1])
  /\ push.err # NoErr => \E g \in Workers : HasReturned(g) /\ push.ret[g] = push.err
  /\ Failed = {} => push.err = NoErr
  /\ push.seen # "none" => push.seen = push.err

\* Both processors returned an error and both were recorded: the consumer
\* sees the one recorded first.
C36_Witness ==
  /\ Len(push.log) >= 2
  /\ push.log[1] # push.log[2]
  /\ push.err = push.log[1]
  /\ push.seen = push.log[1]

\* The frames that fit between the source and a consumer that does not
\* read: BufferSize in each of the three channels, and one in the hands of
\* each of the two goroutines that forward.
Room == 3 * push.cap + 2

\* Every producer is blocked in a send on a channel that is full.
Blocked ==
  /\ push.pc["src"] = "run" /\ push.sent < Len(PushData) /\ ~CanSend(push, "c1")
  /\ push.pc["mid"] = "send" /\ ~CanSend(push, "c2")
  /\ push.pc["seq"] = "send" /\ ~CanSend(push, "out")

\* The consumer has stopped reading a pipeline whose processors do not fail.
Stopped == push.pc["main"] = "stopped" /\ push.mayFail = {}

\* What the consumer has received is the head of what the source sends, and
\* all of it once the channel is closed and no processor failed.
InSourceOrder ==
  /\ Len(push.got) <= Len(PushData)
  /\ push.got = SubSeq(PushData, 1, Len(push.got))
  /\ (push.pc["main"] \in {"closed", "done"} /\ push.mayFail = {}) => push.got = PushData

AsDocumented ==
  /\ ~push.twice
  /\ \A p \in push.explicit : push.inputIdx[p] < Cardinality(push.edges)
  /\ \A p, q \in push.explicit : push.inputIdx[p] = push.inputIdx[q] => p = q

\* C38: after Connect and ConnectOrdered calls into a node and Run, the node
\* with N incoming edges has N input channels, none of them nil, every edge
\* has a slot of its own, and slot k holds the channel of the processor
\* connected at index k, in whatever order Run visits the edges.
C38_InputSlots ==
  (push.ran /\ AsDocumented) =>
    /\ Len(push.toChans) = Cardinality(push.edges)
    /\ \A k \in 1..Len(push.toChans) : push.toChans[k] # NilChan
    /\ \A p \in push.edges : \E k \in 1..Len(push.toChans) : push.toChans[k] = p
    /\ \A p \in push.explicit : push.toChans[push.inputIdx[p] + 1] = p

\* C39: Reset of the push-style DiffProc ends without an index out of range,
\* whatever the vector size and the number of coefficients, leaves zero in
\* every element of every vector of the circular buffer, and leaves the
\* vectors received from upstream as they arrived.
C39_ResetClears ==
  push.reset =>
    /\ ~push.panic
    /\ \A k \in 1..push.bufSize : push.vecs[push.buf[k]] = Zeros(push.size)
    /\ \A id \in DOMAIN push.recv : push.vecs[id] = push.recv[id]

====
